---- MODULE Spec2Model ----
(***************************************************************************)
(* A model of the decoder core of horntail: the AES-seeded keystream table *)
(* (crypto/table.rs), the SNOW 2.0 cipher and its reader adaptor, the      *)
(* offset obfuscator, the variable-length integer codec and the string     *)
(* codec.  Bytes are naturals in 0..255; a u32 is kept as its four         *)
(* little-endian bytes <<b0, b1, b2, b3>> so that no intermediate value    *)
(* leaves the range of the model checker's integers.                       *)
(***************************************************************************)
EXTENDS Integers, Sequences, FiniteSets, TLC

(***************************************************************************)
(* Byte arithmetic                                                         *)
(***************************************************************************)
RECURSIVE XorBits(_, _, _)
XorBits(a, b, n) ==
    IF n = 0 THEN 0
    ELSE ((a + b) % 2) + 2 * XorBits(a \div 2, b \div 2, n - 1)

RECURSIVE AndBits(_, _, _)
AndBits(a, b, n) ==
    IF n = 0 THEN 0
    ELSE ((a % 2) * (b % 2)) + 2 * AndBits(a \div 2, b \div 2, n - 1)

\* A function over 1..n as an explicit tuple (every element computed once).
Tuple(f) == f \o << >>

\* The nibble XOR table, entry [a + 1][b + 1].
Xor4 == Tuple([a \in 1..16 |-> Tuple([b \in 1..16 |-> XorBits(a - 1, b - 1, 4)])])

\* dst ^= t on u8
Xor8(a, b) ==
    16 * Xor4[(a \div 16) + 1][(b \div 16) + 1] + Xor4[(a % 16) + 1][(b % 16) + 1]

XorSeq(s, t) == Tuple([i \in 1..Len(s) |-> Xor8(s[i], t[i])])

(***************************************************************************)
(* AES-256 block encryption (the aes crate's Aes256::encrypt_block), FIPS  *)
(* 197.  A block is a sequence of 16 bytes, column after column.           *)
(***************************************************************************)
BLOCK_SIZE == 16
IV_SIZE == 4

AES_KEY ==
 << 19, 0, 0, 0,  8, 0, 0, 0,  6, 0, 0, 0,  180, 0, 0, 0,
    27, 0, 0, 0,  15, 0, 0, 0,  51, 0, 0, 0,  82, 0, 0, 0 >>

SBox ==
 <<
    99, 124, 119, 123, 242, 107, 111, 197, 48, 1, 103, 43, 254, 215, 171, 118,
    202, 130, 201, 125, 250, 89, 71, 240, 173, 212, 162, 175, 156, 164, 114, 192,
    183, 253, 147, 38, 54, 63, 247, 204, 52, 165, 229, 241, 113, 216, 49, 21,
    4, 199, 35, 195, 24, 150, 5, 154, 7, 18, 128, 226, 235, 39, 178, 117,
    9, 131, 44, 26, 27, 110, 90, 160, 82, 59, 214, 179, 41, 227, 47, 132,
    83, 209, 0, 237, 32, 252, 177, 91, 106, 203, 190, 57, 74, 76, 88, 207,
    208, 239, 170, 251, 67, 77, 51, 133, 69, 249, 2, 127, 80, 60, 159, 168,
    81, 163, 64, 143, 146, 157, 56, 245, 188, 182, 218, 33, 16, 255, 243, 210,
    205, 12, 19, 236, 95, 151, 68, 23, 196, 167, 126, 61, 100, 93, 25, 115,
    96, 129, 79, 220, 34, 42, 144, 136, 70, 238, 184, 20, 222, 94, 11, 219,
    224, 50, 58, 10, 73, 6, 36, 92, 194, 211, 172, 98, 145, 149, 228, 121,
    231, 200, 55, 109, 141, 213, 78, 169, 108, 86, 244, 234, 101, 122, 174, 8,
    186, 120, 37, 46, 28, 166, 180, 198, 232, 221, 116, 31, 75, 189, 139, 138,
    112, 62, 181, 102, 72, 3, 246, 14, 97, 53, 87, 185, 134, 193, 29, 158,
    225, 248, 152, 17, 105, 217, 142, 148, 155, 30, 135, 233, 206, 85, 40, 223,
    140, 161, 137, 13, 191, 230, 66, 104, 65, 153, 45, 15, 176, 84, 187, 22
 >>

SubByte(b) == SBox[b + 1]

XTime(b) == IF b < 128 THEN 2 * b ELSE Xor8((2 * b) % 256, 27)

\* The 60 words of the AES-256 key schedule, each a sequence of 4 bytes.
RECURSIVE ExpandKey(_, _)
ExpandKey(w, rcon) ==
    IF Len(w) = 60 THEN w
    ELSE LET i    == Len(w)
             prev == w[i]
             t    == IF i % 8 = 0
                     THEN << Xor8(SubByte(prev[2]), rcon), SubByte(prev[3]),
                             SubByte(prev[4]), SubByte(prev[1]) >>
                     ELSE IF i % 8 = 4
                     THEN << SubByte(prev[1]), SubByte(prev[2]),
                             SubByte(prev[3]), SubByte(prev[4]) >>
                     ELSE prev
         IN  ExpandKey(Append(w, XorSeq(w[i - 7], t)),
                       IF i % 8 = 0 THEN XTime(rcon) ELSE rcon)

KeyWords ==
    ExpandKey(Tuple([i \in 1..8 |-> Tuple([j \in 1..4 |-> AES_KEY[4 * (i - 1) + j]])]), 1)

RoundKey(r) ==
    Tuple([i \in 1..16 |-> KeyWords[4 * r + ((i - 1) \div 4) + 1][((i - 1) % 4) + 1]])

\* RoundKeys[r + 1] is the key of round r
RoundKeys == Tuple([r \in 1..15 |-> RoundKey(r - 1)])

SubBytes(s) == Tuple([i \in 1..16 |-> SubByte(s[i])])

\* byte (row r, column c) sits at index 4c + r + 1; row r rotates left by r
ShiftRows(s) ==
    Tuple([i \in 1..16 |->
        LET r == (i - 1) % 4
            c == (i - 1) \div 4
        IN  s[4 * ((c + r) % 4) + r + 1]])

MixColumns(s) ==
    Tuple([i \in 1..16 |->
        LET r  == (i - 1) % 4
            c  == (i - 1) \div 4
            a0 == s[4 * c + r + 1]
            a1 == s[4 * c + ((r + 1) % 4) + 1]
            a2 == s[4 * c + ((r + 2) % 4) + 1]
            a3 == s[4 * c + ((r + 3) % 4) + 1]
        IN  Xor8(Xor8(XTime(a0), Xor8(XTime(a1), a1)), Xor8(a2, a3))])

\* One inner round: SubBytes, ShiftRows, MixColumns, AddRoundKey.
AesRound(s, r) == XorSeq(MixColumns(ShiftRows(SubBytes(s))), RoundKeys[r + 1])

RECURSIVE AesRounds(_, _)
AesRounds(s, r) ==
    IF r = 14
    THEN XorSeq(ShiftRows(SubBytes(s)), RoundKeys[15])
    ELSE LET t == AesRound(s, r)
         IN  IF Len(t) = BLOCK_SIZE THEN AesRounds(t, r + 1) ELSE << >>

AesCipher(block) == AesRounds(XorSeq(block, RoundKeys[1]), 1)

\* The IVs the model builds tables from (consts: the GMS vector, and a test one).
IVs == { << 1, 2, 3, 4 >>, << 77, 35, 199, 43 >> }

\* AesCipher on the blocks the tables of IVs start with, computed once:
\* pairs << block, AesCipher(block) >>.
MemoBlocks == 6

RECURSIVE AesChain(_, _)
AesChain(block, n) ==
    IF n = 0 THEN << >>
    ELSE LET c == AesCipher(block) IN << << block, c >> >> \o AesChain(c, n - 1)

AesMemo ==
    UNION { { AesChain(Tuple([i \in 1..BLOCK_SIZE |-> iv[((i - 1) % IV_SIZE) + 1]]),
                       MemoBlocks)[j] : j \in 1..MemoBlocks } : iv \in IVs }

\* aes.encrypt_block(block)
AesEncryptBlock(block) ==
    IF \E m \in AesMemo : m[1] = block
    THEN (CHOOSE m \in AesMemo : m[1] = block)[2]
    ELSE AesCipher(block)

(***************************************************************************)
(* 32-bit words, kept as their little-endian bytes << b0, b1, b2, b3 >>    *)
(***************************************************************************)
Or8(a, b) == a + b - AndBits(a, b, 8)

\* u32::from_le_bytes / to_le_bytes
WordOf(b0, b1, b2, b3) == << b0, b1, b2, b3 >>

\* The 16-bit halves of a word, and the word of two halves.
Lo16(w) == w[1] + 256 * w[2]
Hi16(w) == w[3] + 256 * w[4]
Halves(lo, hi) == << lo % 256, (lo \div 256) % 256, hi % 256, (hi \div 256) % 256 >>

\* Pick({ f(x) : x \in { e } }) is f(e), with e computed once and then used
\* as the value x.
Pick(S) == CHOOSE r \in S : TRUE

WXor(a, b) ==
    Pick({ << Xor8(x[1], y[1]), Xor8(x[2], y[2]), Xor8(x[3], y[3]), Xor8(x[4], y[4]) >> :
           x \in { a }, y \in { b } })
WOr(a, b) ==
    Pick({ << Or8(x[1], y[1]), Or8(x[2], y[2]), Or8(x[3], y[3]), Or8(x[4], y[4]) >> :
           x \in { a }, y \in { b } })
WNot(a) == Pick({ << 255 - x[1], 255 - x[2], 255 - x[3], 255 - x[4] >> : x \in { a } })

\* wrapping_add
WAdd(a, b) ==
    Pick({ Pick({ Halves(lo, Hi16(x) + Hi16(y) + (lo \div 65536)) :
                  lo \in { Lo16(x) + Lo16(y) } }) :
           x \in { a }, y \in { b } })

\* wrapping_sub
WSub(a, b) ==
    Pick({ Pick({ Halves(lo, Hi16(x) - Hi16(y) + (lo \div 65536)) :
                  lo \in { Lo16(x) - Lo16(y) } }) :
           x \in { a }, y \in { b } })

(***************************************************************************)
(* SNOW 2.0 (crypto/snow2.rs).  The tables of crypto/snow2_box.rs are the  *)
(* tables of SNOW 2.0: the AES S-box followed by MixColumn, and the        *)
(* multiplication by alpha and by its inverse over GF(2^8)[x], with        *)
(* GF(2^8) built on x^8 + x^7 + x^5 + x^3 + 1.                             *)
(***************************************************************************)
\* the product of a and 2 in GF(2^8) reduced by 256 + poly
MulX(a, poly) == IF a < 128 THEN 2 * a ELSE Xor8((2 * a) % 256, poly)

RECURSIVE GMul(_, _, _, _)
GMul(a, b, poly, n) ==
    IF n = 0 THEN 0
    ELSE Xor8(IF b % 2 = 1 THEN a ELSE 0, GMul(MulX(a, poly), b \div 2, poly, n - 1))

BetaPoly == 169

\* beta^k, beta the root x of the polynomial
RECURSIVE BetaPow(_)
BetaPow(k) ==
    IF k = 0 THEN 1
    ELSE IF k % 2 = 1 THEN MulX(BetaPow(k - 1), BetaPoly)
    ELSE LET h == BetaPow(k \div 2) IN GMul(h, h, BetaPoly, 8)

\* ALPHA_MUL[c + 1] = (c beta^23, c beta^245, c beta^48, c beta^239), high byte first
ALPHA_MUL ==
    LET p23 == BetaPow(23)  p245 == BetaPow(245)  p48 == BetaPow(48)  p239 == BetaPow(239)
    IN  Tuple([c \in 1..256 |->
            << GMul(c - 1, p239, BetaPoly, 8), GMul(c - 1, p48, BetaPoly, 8),
               GMul(c - 1, p245, BetaPoly, 8), GMul(c - 1, p23, BetaPoly, 8) >>])

\* ALPHA_INV_MUL[c + 1] = (c beta^16, c beta^39, c beta^6, c beta^64), high byte first
ALPHA_INV_MUL ==
    LET p16 == BetaPow(16)  p39 == BetaPow(39)  p6 == BetaPow(6)  p64 == BetaPow(64)
    IN  Tuple([c \in 1..256 |->
            << GMul(c - 1, p64, BetaPoly, 8), GMul(c - 1, p6, BetaPoly, 8),
               GMul(c - 1, p39, BetaPoly, 8), GMul(c - 1, p16, BetaPoly, 8) >>])

\* S0[x + 1] = (3 S[x], S[x], S[x], 2 S[x]), high byte first; S1, S2, S3 are
\* S0 rotated left by 8, 16 and 24 bits.
S0 == Tuple([x \in 1..256 |->
        LET b == SBox[x] IN << XTime(b), b, b, Xor8(XTime(b), b) >>])
S1 == Tuple([x \in 1..256 |-> << S0[x][4], S0[x][1], S0[x][2], S0[x][3] >>])
S2 == Tuple([x \in 1..256 |-> << S0[x][3], S0[x][4], S0[x][1], S0[x][2] >>])
S3 == Tuple([x \in 1..256 |-> << S0[x][2], S0[x][3], S0[x][4], S0[x][1] >>])

U32_SIZE == 4

\* S0[n & 0xff] ^ S1[(n >> 8) & 0xff] ^ S2[(n >> 16) & 0xff] ^ S3[(n >> 24) & 0xff]
sbox(n) ==
    Pick({ WXor(WXor(S0[x[1] + 1], S1[x[2] + 1]), WXor(S2[x[3] + 1], S3[x[4] + 1])) :
           x \in { n } })

\* (n << 8) ^ ALPHA_MUL[n >> 24]
a_mul(n) == Pick({ WXor(<< 0, x[1], x[2], x[3] >>, ALPHA_MUL[x[4] + 1]) : x \in { n } })

\* (n >> 8) ^ ALPHA_INV_MUL[n & 0xff]
ainv_mul(n) == Pick({ WXor(<< x[2], x[3], x[4], 0 >>, ALPHA_INV_MUL[x[1] + 1]) : x \in { n } })

\* (b as i8) as u32: the byte, sign-extended
SignExtend(b) == IF b >= 128 THEN << b, 255, 255, 255 >> ELSE << b, 0, 0, 0 >>

\* u32_from_array!: the four sign-extended bytes shifted to 24, 16, 8 and 0, or-ed
u32_from_array(k) ==
    Pick({ WOr(WOr(<< 0, 0, 0, e0[1] >>, << 0, 0, e1[1], e1[2] >>),
               WOr(<< 0, e2[1], e2[2], e2[3] >>, e3)) :
           e0 \in { SignExtend(k[1]) }, e1 \in { SignExtend(k[2]) },
           e2 \in { SignExtend(k[3]) }, e3 \in { SignExtend(k[4]) } })

\* round_state; state is indexed from 0 in the code: state[i] is st[i + 1]
RoundState(st, r1, r2, index) ==
    Pick({ [state |-> s2, r1 |-> WAdd(r2, s2[((index + 5) % Len(s2)) + 1]), r2 |-> sbox(r1)] :
           s2 \in { [st EXCEPT ![(index % Len(st)) + 1] =
                       WXor(WXor(a_mul(st[(index % Len(st)) + 1]),
                                 st[((index + 2) % Len(st)) + 1]),
                            WXor(ainv_mul(st[((index + 11) % Len(st)) + 1]),
                                 WXor(WAdd(r1, st[((index + 15) % Len(st)) + 1]), r2)))] } })

\* (0..32).for_each(|index| (r1, r2) = round_state(&mut state, r1, r2, index))
RECURSIVE KeyRounds(_, _)
KeyRounds(z, index) ==
    IF index = 32 THEN z
    ELSE Pick({ KeyRounds(n, index + 1) :
                n \in { RoundState(z.state, z.r1, z.r2, index) } })

Zero32 == << 0, 0, 0, 0 >>

\* the words the key fills state with, before the IV; k[i + 1] is
\* u32_from_array!(&key[4 * i..4 * i + 4])
KeyState(key) ==
    Pick({ IF Len(key) = 16
           THEN << WNot(k[4]), WNot(k[3]), WNot(k[2]), WNot(k[1]),
                   k[4], k[3], k[2], k[1],
                   WNot(k[4]), WNot(k[3]), WNot(k[2]), WNot(k[1]),
                   k[4], k[3], k[2], k[1] >>
           ELSE << WNot(k[8]), WNot(k[7]), WNot(k[6]), WNot(k[5]),
                   k[4], k[3], k[2], k[1],
                   k[8], k[7], k[6], k[5],
                   k[4], k[3], k[2], k[1] >> :
           k \in { Tuple([i \in 1..(Len(key) \div 4) |->
                     u32_from_array(SubSeq(key, 4 * i - 3, 4 * i))]) } })

\* Snow2::new(key, iv), key of 16 or 32 bytes
Snow2New(key, iv) ==
    Pick({ [state |-> z.state, r1 |-> z.r1, r2 |-> z.r2, cur |-> 0] :
           z \in { KeyRounds([state |-> st, r1 |-> Zero32, r2 |-> Zero32], 0) :
                   st \in { [st0 EXCEPT ![16] = WXor(st0[16], iv[1]),
                                        ![13] = WXor(st0[13], iv[2]),
                                        ![11] = WXor(st0[11], iv[3]),
                                        ![10] = WXor(st0[10], iv[4])] :
                            st0 \in { KeyState(key) } } } })

\* Iterator::next: the cipher after the step, and the keystream word
Snow2Next(z) ==
    Pick({ Pick({ [z |-> [state |-> st, r1 |-> fsm, r2 |-> r2, cur |-> nc],
                   k |-> WXor(WXor(WAdd(fsm, st[z.cur + 1]), r2), st[nc + 1])] :
                  fsm \in { WAdd(z.r2, st[((z.cur + 5) % Len(st)) + 1]) },
                  r2 \in { sbox(z.r1) },
                  nc \in { (z.cur + 1) % Len(st) } }) :
           st \in { [z.state EXCEPT ![z.cur + 1] =
                       WXor(WXor(a_mul(z.state[z.cur + 1]),
                                 z.state[((z.cur + 2) % Len(z.state)) + 1]),
                            ainv_mul(z.state[((z.cur + 11) % Len(z.state)) + 1]))] } })

\* (the word always added)
CryptWordAdd(w, k, is_enc) == WAdd(w, k)

\* u32val.wrapping_add(k) when encrypting, u32val.wrapping_sub(k) otherwise
CryptWord(w, k, is_enc) == IF is_enc THEN WAdd(w, k) ELSE WSub(w, k)

\* (no length is refused)
LengthOkAny(n) == TRUE

\* dst.len() % U32_SIZE == 0
LengthOk(n) == n % U32_SIZE = 0

\* dst.copy_from_slice(&result[..dst_len]) on the chunk that starts at byte i
WriteWord(dst, i, w) ==
    [dst EXCEPT ![i + 1] = w[1], ![i + 2] = w[2], ![i + 3] = w[3], ![i + 4] = w[4]]

\* dst.chunks_mut(U32_SIZE).zip(self).for_each(...): the chunks from byte i
\* (counted from 0) on; a last chunk of fewer than four bytes makes
\* [dst[0], dst[1], dst[2], dst[3]] panic, the chunks before it transformed.
RECURSIVE CryptChunks(_, _, _, _)
CryptChunks(z, dst, i, is_enc) ==
    IF i >= Len(dst) THEN [res |-> "ok", z |-> z, dst |-> dst]
    ELSE Pick({ IF i + U32_SIZE > Len(dst) THEN [res |-> "panic", z |-> n.z, dst |-> dst]
                ELSE Pick({ CryptChunks(n.z, d, i + U32_SIZE, is_enc) :
                            d \in { WriteWord(dst, i, w) :
                                    w \in { CryptWord(WordOf(dst[i + 1], dst[i + 2],
                                                             dst[i + 3], dst[i + 4]),
                                                      n.k, is_enc) } } }) :
                n \in { Snow2Next(z) } })

\* Snow2::crypt(dst, is_enc): panics, before anything else, on a length that
\* is no multiple of four
Snow2Crypt(z, dst, is_enc) ==
    IF ~LengthOk(Len(dst)) THEN [res |-> "panic", z |-> z, dst |-> dst]
    ELSE CryptChunks(z, dst, 0, is_enc)

(***************************************************************************)
(* State                                                                   *)
(***************************************************************************)
VARIABLES
    cells,      \* the MapleTable values alive: iv, tab (Vec<u8>), its capacity
    ciphers,    \* the Box<dyn MapleCipher> handles: kind and the table they own or share
    op,         \* the last crypt call: what it was given and returned
    calls,      \* the crypt calls made so far
    algos,      \* the crypto::Snow2 values alive: state, r1, r2, cur
    sdst,       \* the buffer handed to Snow2::crypt, and what it first held
    strace,     \* the Snow2::crypt calls made on that buffer
    rd,         \* a reader::Snow2 over its base: base position, buf, algo, reads made
    acc,        \* a BinaryAccessor: data, pos, cipher
    opt,        \* the AccessorOpt of a directory: ver_hash, parent_offset
    ret,        \* the last call on the accessor: where it started, what it returned
    nav         \* an Entry and the EntryCache made of it: the maps stored, the decodes made

tableVars == << cells, ciphers, op, calls >>
snowVars == << algos, sdst, strace >>
readerVars == << rd >>
accVars == << acc, opt, ret >>
navVars == << nav >>

vars == << cells, ciphers, op, calls, algos, sdst, strace, rd, acc, opt, ret, nav >>

(***************************************************************************)
(* Bounds of the model                                                     *)
(***************************************************************************)
MaxCiphers == 2     \* cipher handles alive at once
MaxSlack == 1       \* spare bytes a new or cloned Vec may hold beyond its length
MaxExtra == 1       \* the longest buffer is 2 * BLOCK_SIZE + MaxExtra bytes
MaxCalls == 3       \* crypt calls in a run
MaxTotal == 50      \* bytes a table transforms in a run that counts them

CipherIds == 1..MaxCiphers
CellIds == 1..MaxCiphers

NoCell == [live |-> FALSE]
NoCipher == [kind |-> "Free"]
NoOp == [name |-> "none"]

Max(a, b) == IF a >= b THEN a ELSE b
Min(a, b) == IF a <= b THEN a ELSE b

\* The buffers handed to crypt: byte i (from 0) of a buffer of length n.
BufLens == { 0, BLOCK_SIZE + 1, 2 * BLOCK_SIZE + MaxExtra }
Buffer(n) == Tuple([i \in 1..n |-> (200 + 37 * i) % 256])

(***************************************************************************)
(* MapleTable (crypto/table.rs)                                            *)
(***************************************************************************)
\* The capacities a Vec of capacity `cap` may get when it must hold `need`
\* bytes: at least `need`, or the doubled capacity of the amortised growth.
GrowTo(cap, need) == { need, Max(need, 2 * cap) }

\* (reserve_size + BLOCK_SIZE - 1) & !(BLOCK_SIZE - 1)
AlignedSize(reserve_size) ==
    ((reserve_size + BLOCK_SIZE - 1) \div BLOCK_SIZE) * BLOCK_SIZE

\* (a reserve that never grows the Vec)
ReserveNothing(len, cap, additional) == { cap }

\* Vec::reserve(additional): nothing when the spare capacity suffices.
Reserve(len, cap, additional) ==
    IF cap - len >= additional THEN { cap } ELSE GrowTo(cap, len + additional)

\* MapleTable::new: the IV repeated BLOCK_SIZE / IV_SIZE times, encrypted once.
NewTab(iv) ==
    AesEncryptBlock(Tuple([i \in 1..BLOCK_SIZE |-> iv[((i - 1) % IV_SIZE) + 1]]))

\* (every block of one extension encrypts the block the extension started from)
RECURSIVE ExtendLoopStale(_, _, _)
ExtendLoopStale(tab, i, cap) ==
    IF i >= cap THEN tab
    ELSE LET block == AesEncryptBlock(SubSeq(tab, Len(tab) - BLOCK_SIZE + 1, Len(tab)))
             n     == (cap - i + BLOCK_SIZE - 1) \div BLOCK_SIZE
         IN  tab \o Tuple([j \in 1..(n * BLOCK_SIZE) |-> block[((j - 1) % BLOCK_SIZE) + 1]])

\* The for_each of extend_table over (len..capacity).step_by(BLOCK_SIZE),
\* from index i (counted from 0): each block is the encryption of
\* tab[i - BLOCK_SIZE..i].
RECURSIVE ExtendLoop(_, _, _)
ExtendLoop(tab, i, cap) ==
    IF i >= cap THEN tab
    ELSE LET block == AesEncryptBlock(SubSeq(tab, i - BLOCK_SIZE + 1, i))
             t     == tab \o block
         IN  IF Len(t) > 0 THEN ExtendLoop(t, i + BLOCK_SIZE, cap) ELSE t

\* extend_table(size) on a table of the given tab and capacity `cap`, where
\* `rcap` is the capacity reserve() leaves: the tab afterwards.
ExtendTable(tab, rcap, size) ==
    LET reserve_size == Max(size - Len(tab), 0)
    IN  IF reserve_size = 0 THEN tab ELSE ExtendLoop(tab, Len(tab), rcap)

\* The capacities extend_table may be left with.
ExtendCaps(tab, cap, size) ==
    LET reserve_size == Max(size - Len(tab), 0)
    IN  IF reserve_size = 0 THEN { cap }
        ELSE Reserve(Len(tab), cap, AlignedSize(reserve_size))

\* alloc(size): extends when tab.len() < size; the slice &tab[..size], or a
\* panic when the slice is out of range.
AllocTab(tab, rcap, size) == IF Len(tab) < size THEN ExtendTable(tab, rcap, size) ELSE tab

AllocSlice(tab, size) ==
    IF size <= Len(tab) THEN [res |-> "ok", table |-> SubSeq(tab, 1, size)]
    ELSE [res |-> "panic", table |-> << >>]

\* (the keystream taken one byte late)
CryptBytesLate(dst, table) ==
    Tuple([i \in 1..Len(dst) |->
        IF i + 1 <= Len(table) THEN Xor8(dst[i], table[i + 1]) ELSE dst[i]])

\* dst.iter_mut().zip(table).for_each(|(dst, t)| *dst ^= *t)
CryptBytes(dst, table) ==
    Tuple([i \in 1..Len(dst) |-> IF i <= Len(table) THEN Xor8(dst[i], table[i]) ELSE dst[i]])

\* The capacity left after the loop appended to a Vec of capacity rcap.
CapsAfter(rcap, newlen) == IF newlen <= rcap THEN { rcap } ELSE GrowTo(rcap, newlen)

FreeCiphers == { c \in CipherIds : ciphers[c].kind = "Free" }
FreeCells == { k \in CellIds : ~cells[k].live }
LiveCiphers == CipherIds \ FreeCiphers

\* let c = MapleTable::new(iv), kept as it is or as Rc::new(RefCell::new(c))
New(iv, kind) ==
    /\ FreeCiphers # {} /\ FreeCells # {}
    /\ \A k \in CellIds : cells[k].live => cells[k].iv = iv   \* one IV a run
    /\ LET c == CHOOSE x \in FreeCiphers : \A y \in FreeCiphers : x <= y
           k == CHOOSE x \in FreeCells : \A y \in FreeCells : x <= y
       IN  \E cap \in { BLOCK_SIZE, BLOCK_SIZE + MaxSlack } :
             /\ cells' = [cells EXCEPT ![k] =
                    [live |-> TRUE, iv |-> iv, tab |-> NewTab(iv), cap |-> cap,
                     total |-> 0, maxreq |-> 0]]
             /\ ciphers' = [ciphers EXCEPT ![c] = [kind |-> kind, cell |-> k, from |-> 0]]
             /\ UNCHANGED << op, calls >>

\* MapleCipher::crypt(dst) through handle c (the Rc wrapper borrows the
\* shared table and calls the same crypt).  `counted` keeps the history of
\* the table: the bytes it transformed before this call.
CryptOn(c, n, counted) ==
    /\ ciphers[c].kind \in { "MapleTable", "Rc" }
    /\ LET k    == ciphers[c].cell
           cell == cells[k]
           dst  == Buffer(n)
       IN  /\ calls < MaxCalls
           /\ calls' = calls + 1
           /\ counted => cell.total + n <= MaxTotal
           /\ \E rcap \in ExtendCaps(cell.tab, cell.cap, n) :
              \E tab \in { AllocTab(cell.tab, rcap, n) } :
              \E sl \in { AllocSlice(tab, n) } :
              \E cap \in CapsAfter(rcap, Len(tab)) :
                /\ cells' = [cells EXCEPT ![k] =
                       [cell EXCEPT !.tab = tab, !.cap = cap,
                                    !.total = IF counted THEN cell.total + n ELSE 0,
                                    !.maxreq = Max(cell.maxreq, n)]]
                /\ op' = [name |-> "crypt", c |-> c, res |-> sl.res,
                          src |-> dst,
                          dst |-> IF sl.res = "ok" THEN CryptBytes(dst, sl.table) ELSE dst]
           /\ UNCHANGED ciphers

\* (every clone shares the table of its origin)
CloneCellShared(kind, origin, fresh) == origin

\* The table a clone_boxed handle works on: #[derive(Clone)] on MapleTable
\* copies tab into a table of its own (fresh), Rc::clone shares the origin's.
CloneCell(kind, origin, fresh) == IF kind = "Rc" THEN origin ELSE fresh

\* clone_boxed: Box::new(self.clone()); BinaryBuilder::clone_boxed and
\* BinaryBuilder::accessor obtain their cipher this way.
CloneBoxed(c) ==
    /\ ciphers[c].kind \in { "MapleTable", "Rc" }
    /\ FreeCiphers # {} /\ FreeCells # {}
    /\ LET c2 == CHOOSE x \in FreeCiphers : \A y \in FreeCiphers : x <= y
           k  == ciphers[c].cell
           k2 == CloneCell(ciphers[c].kind, k,
                           CHOOSE x \in FreeCells : \A y \in FreeCells : x <= y)
       IN  /\ ciphers' = [ciphers EXCEPT ![c2] =
                  [kind |-> ciphers[c].kind, cell |-> k2, from |-> c]]
           /\ IF k2 = k THEN cells' = cells
              ELSE \E cap \in { Len(cells[k].tab), Len(cells[k].tab) + MaxSlack } :
                     cells' = [cells EXCEPT ![k2] = [cells[k] EXCEPT !.cap = cap]]
           /\ UNCHANGED << op, calls >>

Crypt(c, n) == CryptOn(c, n, FALSE)

CryptCounted(c, n) == CryptOn(c, n, TRUE)

\* The first cipher of a run.
NewFirst(iv, kind) == LiveCiphers = {} /\ New(iv, kind)

(***************************************************************************)
(* crypto::Snow2 in use (crypto/snow2.rs)                                  *)
(***************************************************************************)
MaxOps == 2         \* Snow2::crypt calls on one buffer

SnowIds == { "a", "b" }
NoAlgo == [live |-> FALSE]
NoDst == [loaded |-> FALSE]

SnowKeys == { << 144, 1, 2, 3, 4, 5, 6, 247, 8, 9, 10, 11, 12, 13, 14, 15 >>,
              << 0, 0, 0, 0, 0, 0, 0, 0, 0, 0, 0, 0, 0, 0, 0, 0 >> }
SnowIVs == { << << 0, 0, 0, 0 >>, << 0, 0, 0, 0 >>, << 0, 0, 0, 0 >>, << 0, 0, 0, 0 >> >>,
             << << 4, 3, 2, 1 >>, << 0, 0, 0, 128 >>, << 0, 0, 0, 0 >>, << 255, 255, 255, 255 >> >> }
SnowBufs == { << >>, Buffer(3), Buffer(4), Buffer(6), Buffer(8) }

\* Snow2::new on the keys and IVs of the model, computed once
ZeroIV == << Zero32, Zero32, Zero32, Zero32 >>
Snow2Memo == { << key, iv, Snow2New(key, iv) >> : key \in SnowKeys, iv \in SnowIVs }
Snow2Fresh(key, iv) ==
    IF \E m \in Snow2Memo : m[1] = key /\ m[2] = iv
    THEN (CHOOSE m \in Snow2Memo : m[1] = key /\ m[2] = iv)[3]
    ELSE Snow2New(key, iv)

\* let x = Snow2::new(key, iv)
SnowNew(i, key, iv) ==
    /\ ~algos[i].live
    /\ algos' = [algos EXCEPT ![i] =
           [live |-> TRUE, key |-> key, iv |-> iv, z |-> Snow2Fresh(key, iv), used |-> 0]]
    /\ UNCHANGED << sdst, strace >>

\* the caller's buffer, dst: &mut [u8]
SnowLoad(buf) ==
    /\ ~sdst.loaded
    /\ sdst' = [loaded |-> TRUE, buf |-> buf, orig |-> buf]
    /\ UNCHANGED << algos, strace >>

\* x.crypt(dst, is_enc); a panic ends the run
SnowCrypt(i, is_enc) ==
    /\ algos[i].live /\ sdst.loaded
    /\ Len(strace) < MaxOps
    /\ \A j \in 1..Len(strace) : strace[j].res = "ok"
    /\ \E r \in { Snow2Crypt(algos[i].z, sdst.buf, is_enc) } :
         LET words == IF r.res = "ok" THEN Len(sdst.buf) \div U32_SIZE ELSE 0
         IN  /\ algos' = [algos EXCEPT ![i].z = r.z, ![i].used = @ + words]
             /\ sdst' = [sdst EXCEPT !.buf = r.dst]
             /\ strace' = Append(strace,
                    [algo |-> i, is_enc |-> is_enc, key |-> algos[i].key, iv |-> algos[i].iv,
                     at |-> algos[i].used, res |-> r.res, src |-> sdst.buf, dst |-> r.dst,
                     same |-> r.z = algos[i].z])

InitSnow ==
    /\ algos = [i \in SnowIds |-> NoAlgo]
    /\ sdst = NoDst
    /\ strace = << >>

(***************************************************************************)
(* reader::Snow2 (reader/snow2.rs) over a BinaryAccessor (reader/binary.rs)*)
(***************************************************************************)
MaxReads == 3       \* reads made of one reader

SNOW2_BLOCK_SIZE == 4

NoReader == [live |-> FALSE, res |-> "none"]
ReaderData == { Buffer(6), Buffer(12) }
WithBufferLens == { 0, 3, 4, 8 }
ReadLens == { 0, 1, 3, 4, 5, 8 }

\* (size + BLOCK_SIZE - 1) & !(BLOCK_SIZE - 1)
align_size(size) ==
    (size + SNOW2_BLOCK_SIZE - 1) - ((size + SNOW2_BLOCK_SIZE - 1) % SNOW2_BLOCK_SIZE)

Zeros(n) == Tuple([i \in 1..n |-> 0])

\* base.read_exact(buf) on a BinaryAccessor, buf holding old: Read::read
\* copies what is left of the data, up to the length of buf, and advances
\* pos; read_exact repeats it and fails with UnexpectedEof once it copies
\* nothing into a buffer that is not full yet.
BaseReadExact(data, pos, old) ==
    LET n     == Len(old)
        start == Min(pos, Len(data))
        got   == Min(n, Len(data) - start)
    IN  [res   |-> IF got = n THEN "ok" ELSE "UnexpectedEof",
         bytes |-> SubSeq(data, start + 1, start + got) \o SubSeq(old, got + 1, n),
         pos   |-> pos + got]

\* (nothing of the pull is kept)
KeepNothing(buf, n) == << >>

\* buf.copy_within(n.., 0); buf.set_len(len - n)
KeepRest(buf, n) == SubSeq(buf, n + 1, Len(buf))

\* Read::read(dst) with dst.len() = n: the result, the bytes written to
\* dst, and the reader's fields after the call
ReadCall(r, n) ==
    IF n <= Len(r.buf)
    THEN [res |-> "ok", ret |-> n, out |-> SubSeq(r.buf, 1, n),
          buf |-> KeepRest(r.buf, n), pos |-> r.pos, z |-> r.z]
    ELSE Pick({
        IF aligned > rest
        THEN Pick({ IF rx.res # "ok"
                    THEN [res |-> rx.res, ret |-> 0, out |-> r.buf,
                          buf |-> rx.bytes, pos |-> rx.pos, z |-> r.z]
                    ELSE Pick({ [res |-> c.res, ret |-> n,
                                 out |-> r.buf \o SubSeq(c.dst, 1, rest),
                                 buf |-> KeepRest(c.dst, rest), pos |-> rx.pos, z |-> c.z] :
                                c \in { Snow2Crypt(r.z, rx.bytes, FALSE) } }) :
                    rx \in { BaseReadExact(r.data, r.pos, Zeros(aligned)) } })
        ELSE Pick({ IF rx.res # "ok"
                    THEN [res |-> rx.res, ret |-> 0, out |-> r.buf \o rx.bytes,
                          buf |-> << >>, pos |-> rx.pos, z |-> r.z]
                    ELSE Pick({ [res |-> c.res, ret |-> n, out |-> r.buf \o c.dst,
                                 buf |-> << >>, pos |-> rx.pos, z |-> c.z] :
                                c \in { Snow2Crypt(r.z, rx.bytes, FALSE) } }) :
                    rx \in { BaseReadExact(r.data, r.pos, Zeros(rest)) } }) :
        rest \in { n - Len(r.buf) }, aligned \in { align_size(n - Len(r.buf)) } })

\* Snow2::new(base, cipher): base a BinaryAccessor at the start of data
ReaderNew(data, key) ==
    /\ rd = NoReader
    /\ rd' = [live |-> TRUE, res |-> "new", data |-> data, key |-> key, pos |-> 0,
              buf |-> << >>, z |-> Snow2Fresh(key, ZeroIV),
              ret |-> 0, out |-> << >>, lens |-> << >>]

\* Snow2::with_buffer(base, src, cipher): src the first n bytes of data,
\* base a BinaryAccessor seeked behind them (PackEntry::decrypt_from)
ReaderWithBuffer(data, n, key) ==
    /\ rd = NoReader
    /\ n <= Len(data)
    /\ IF n % SNOW2_BLOCK_SIZE # 0
       THEN rd' = [live |-> FALSE, res |-> "UnexpectedData"]
       ELSE \E c \in { Snow2Crypt(Snow2Fresh(key, ZeroIV),
                                   SubSeq(data, 1, n), FALSE) } :
              rd' = [live |-> TRUE, res |-> "new", data |-> data, key |-> key, pos |-> n,
                     buf |-> c.dst, z |-> c.z, ret |-> 0, out |-> << >>, lens |-> << >>]

\* reader.read(dst) with dst.len() = n.  A failed read ends the run: the
\* callers (reader/pack.rs) return the error and drop the reader.
ReaderRead(n) ==
    /\ rd.live /\ rd.res \in { "new", "ok" }
    /\ Len(rd.lens) < MaxReads
    /\ \E c \in { ReadCall(rd, n) } :
         rd' = [rd EXCEPT !.res = c.res, !.ret = c.ret, !.pos = c.pos, !.buf = c.buf,
                          !.z = c.z, !.lens = Append(@, n),
                          !.out = IF c.res = "ok" THEN @ \o c.out ELSE @]

InitReader == rd = NoReader

(***************************************************************************)
(* BinaryAccessor (reader/binary.rs) and the Accessor reads                *)
(* (reader/accessor.rs)                                                    *)
(***************************************************************************)
NoAcc == [open |-> FALSE]
NoOpt == [set |-> FALSE]
NoRet == [name |-> "none"]

NoneCipher == [kind |-> "MapleTableNone"]

\* n as u32, for an n of the model (usize values below 2^31, or a difference
\* of two)
ToWord(n) == Halves(n % 65536, (n \div 65536) % 65536)

\* BinaryAccessor's Read::read into a zeroed buffer of n bytes: what is
\* left of data from pos, up to n bytes; pos moves by the bytes copied.
AccRead(data, pos, n) ==
    Pick({ [n |-> got, pos |-> pos + got,
            bytes |-> SubSeq(data, start + 1, start + got) \o Zeros(n - got)] :
           got \in { Min(n, Len(data) - Min(pos, Len(data))) },
           start \in { Min(pos, Len(data)) } })

\* copy_to_slice(dst) with dst.len() = n: panics when read brought fewer bytes
CopyToSlice(data, pos, n) ==
    Pick({ [res |-> IF r.n = n THEN "ok" ELSE "panic", bytes |-> r.bytes, pos |-> r.pos] :
           r \in { AccRead(data, pos, n) } })

\* (the byte taken as it is)
AsU8(b) == b

\* u8 as i8
AsI8(b) == IF b >= 128 THEN b - 256 ELSE b

\* get_i8: get_u8() as i8, get_u8 being copy_to_slice on one byte
GetI8(data, pos) ==
    Pick({ [res |-> c.res, pos |-> c.pos, val |-> AsI8(c.bytes[1])] :
           c \in { CopyToSlice(data, pos, 1) } })

MinI32 == -2147483647 - 1

\* i32::from_le_bytes
I32FromLe(b) ==
    IF b[4] < 128 THEN b[1] + 256 * b[2] + 65536 * b[3] + 16777216 * b[4]
    ELSE (b[1] + 256 * b[2] + 65536 * b[3] + 16777216 * (b[4] - 128)) + MinI32

\* get_u32_le, by buf_try_get_impl!: read into [0; 4] and convert, whatever
\* the count read returned; the value is kept as its little-endian bytes
GetU32Le(data, pos) ==
    Pick({ [res |-> "ok", pos |-> r.pos, val |-> r.bytes] : r \in { AccRead(data, pos, 4) } })

\* get_i32_le, by buf_try_get_impl!
GetI32Le(data, pos) ==
    Pick({ [res |-> "ok", pos |-> r.pos, val |-> I32FromLe(r.bytes)] :
           r \in { AccRead(data, pos, 4) } })

\* get_var_i32_le: one i8, and an i32 after it when the i8 is i8::MIN
GetVarI32Le(data, pos) ==
    Pick({ IF num.res # "ok" THEN num
           ELSE IF num.val = -128 THEN GetI32Le(data, num.pos)
           ELSE num :
           num \in { GetI8(data, pos) } })

\* BinaryAccessor::new(cipher, data), then seek(SeekFrom::Start(pos))
AccOpen(data, pos, cipher) ==
    /\ ~acc.open
    /\ acc' = [open |-> TRUE, data |-> data, pos |-> pos, cipher |-> cipher]
    /\ UNCHANGED << opt, ret >>

\* accessor.get_var_i32_le()
GetVarI32LeCall ==
    /\ acc.open /\ ret = NoRet
    /\ \E r \in { GetVarI32Le(acc.data, acc.pos) } :
         /\ acc' = [acc EXCEPT !.pos = r.pos]
         /\ ret' = [name |-> "get_var_i32_le", from |-> acc.pos, res |-> r.res, val |-> r.val]
    /\ UNCHANGED opt

\* The data the var-int reads run on.
VarIntData ==
    { << 7, 128, 0, 0, 0, 128, 9 >>, << 7, 128, 1, 0, 0, 128 >>, << 7, 128, 0, 0, 255, 255 >>,
      << 7, 128, 255, 127, 255, 255 >>, << 7, 128, 127, 255, 255, 255, 9 >>,
      << 7, 128, 128, 255, 255, 255 >>, << 7, 129, 9 >>, << 7, 255 >>, << 7, 0, 9 >>,
      << 7, 1 >>, << 7, 126 >>, << 7, 127, 9 >>, << 7, 128, 128, 0, 0, 0 >>,
      << 7, 128, 255, 0, 0, 0, 9 >>, << 7, 128, 0, 1, 0, 0 >>, << 7, 128, 255, 127, 0, 0 >>,
      << 7, 128, 255, 255, 0, 0 >>, << 7, 128, 0, 0, 0, 1 >>, << 7, 128, 255, 255, 255, 127 >>,
      << 7, 128, 5, 0, 0, 0 >>, << 7, 128, 1, 2 >>, << 7, 128 >>, << 7 >>, << >> }
        \cup { << 7, b >> : b \in 0..255 }
VarIntStarts == { 0, 1, 2 }

(***************************************************************************)
(* The string codec: get_var_u32_le_abs and decrypt_string_slice           *)
(* (reader/accessor.rs)                                                    *)
(***************************************************************************)
\* get_var_u32_le_abs: one i8 v; the size is the next u32 when v is i8::MIN
\* or i8::MAX and |v| otherwise; Negative when v < 0.  The size is kept as
\* its little-endian bytes.
GetVarU32LeAbs(data, pos) ==
    Pick({ IF v.res # "ok" THEN [res |-> "panic", pos |-> v.pos, neg |-> FALSE, size |-> Zero32]
           ELSE IF v.val = -128 \/ v.val = 127
                THEN Pick({ [res |-> "ok", pos |-> w.pos, neg |-> v.val < 0, size |-> w.val] :
                            w \in { GetU32Le(data, v.pos) } })
           ELSE [res |-> "ok", pos |-> v.pos, neg |-> v.val < 0,
                 size |-> ToWord(IF v.val < 0 THEN -v.val ELSE v.val)] :
           v \in { GetI8(data, pos) } })

\* MapleTable::new(iv) as the cipher of an accessor: its table and capacity
TableCipher(iv) == [kind |-> "MapleTable", iv |-> iv, tab |-> NewTab(iv), cap |-> BLOCK_SIZE]

\* MapleCipher::crypt of the accessor's cipher on dst: MapleTableNone leaves
\* dst alone, a MapleTable xors the first dst.len() bytes of its table,
\* extended when it is shorter, onto it.
AccCrypt(cipher, dst) ==
    IF cipher.kind = "MapleTableNone" THEN dst
    ELSE Pick({ CryptBytes(dst, AllocSlice(tab, Len(dst)).table) :
                tab \in { AllocTab(cipher.tab,
                                   Len(cipher.tab)
                                       + AlignedSize(Max(Len(dst) - Len(cipher.tab), 0)),
                                   Len(dst)) } })

\* The cipher after crypt on n bytes: the table extended to what reserve()
\* left room for.
AccCryptAfter(cipher, n) ==
    IF cipher.kind = "MapleTableNone" \/ n <= Len(cipher.tab) THEN { cipher }
    ELSE UNION { { [cipher EXCEPT !.tab = tab, !.cap = cap] : cap \in CapsAfter(rcap, Len(tab)) } :
                 << rcap, tab >> \in { << c, AllocTab(cipher.tab, c, n) >> :
                                       c \in ExtendCaps(cipher.tab, cipher.cap, n) } }

\* *b ^= i.wrapping_add(0xaa) as u8, i from 0
Mask8(chunk) == Tuple([i \in 1..Len(chunk) |-> Xor8(chunk[i], (i - 1 + 170) % 256)])

\* b16 ^ i.wrapping_add(0xaaaa) as u16 on each whole pair of bytes, i from 0
Mask16(chunk) ==
    Tuple([j \in 1..Len(chunk) |->
        IF j % 2 = 1 /\ j = Len(chunk) THEN chunk[j]
        ELSE LET m == (((j - 1) \div 2) + 43690) % 65536
             IN  Xor8(chunk[j], IF j % 2 = 1 THEN m % 256 ELSE m \div 256)])

\* chunks_exact(2).map(u16::from_le_bytes), and the big-endian reading
Units(chunk) == Tuple([i \in 1..(Len(chunk) \div 2) |-> chunk[2 * i - 1] + 256 * chunk[2 * i]])
UnitsBE(chunk) == Tuple([i \in 1..(Len(chunk) \div 2) |-> 256 * chunk[2 * i - 1] + chunk[2 * i]])

\* char::decode_utf16(units) collected into a Result: the code points, or an
\* error at the first unpaired surrogate.
RECURSIVE DecodeUtf16(_, _)
DecodeUtf16(u, i) ==
    IF i > Len(u) THEN [err |-> FALSE, str |-> << >>]
    ELSE IF u[i] < 55296 \/ u[i] > 57343
         THEN Pick({ [err |-> r.err, str |-> << u[i] >> \o r.str] : r \in { DecodeUtf16(u, i + 1) } })
    ELSE IF u[i] <= 56319 /\ i + 1 <= Len(u) /\ u[i + 1] >= 56320 /\ u[i + 1] <= 57343
         THEN Pick({ [err |-> r.err,
                      str |-> << 65536 + (u[i] - 55296) * 1024 + (u[i + 1] - 56320) >> \o r.str] :
                     r \in { DecodeUtf16(u, i + 2) } })
    ELSE [err |-> TRUE, str |-> << >>]

\* The UTF-8 decoder of encoding_rs: had_errors at the first byte that does
\* not start or continue a well-formed sequence.
Utf8Cont(b, j, lo, hi) == j <= Len(b) /\ b[j] >= lo /\ b[j] <= hi

RECURSIVE DecodeUtf8(_, _)
Utf8Put(b, i, n, cp) ==
    Pick({ [err |-> r.err, str |-> << cp >> \o r.str] : r \in { DecodeUtf8(b, i + n) } })

DecodeUtf8(b, i) ==
    IF i > Len(b) THEN [err |-> FALSE, str |-> << >>]
    ELSE IF b[i] < 128 THEN Utf8Put(b, i, 1, b[i])
    ELSE IF b[i] >= 194 /\ b[i] <= 223 /\ Utf8Cont(b, i + 1, 128, 191)
         THEN Utf8Put(b, i, 2, (b[i] - 192) * 64 + (b[i + 1] - 128))
    ELSE IF /\ b[i] >= 224 /\ b[i] <= 239
            /\ Utf8Cont(b, i + 1, IF b[i] = 224 THEN 160 ELSE 128, IF b[i] = 237 THEN 159 ELSE 191)
            /\ Utf8Cont(b, i + 2, 128, 191)
         THEN Utf8Put(b, i, 3, (b[i] - 224) * 4096 + (b[i + 1] - 128) * 64 + (b[i + 2] - 128))
    ELSE IF /\ b[i] >= 240 /\ b[i] <= 244
            /\ Utf8Cont(b, i + 1, IF b[i] = 240 THEN 144 ELSE 128, IF b[i] = 244 THEN 143 ELSE 191)
            /\ Utf8Cont(b, i + 2, 128, 191)
            /\ Utf8Cont(b, i + 3, 128, 191)
         THEN Utf8Put(b, i, 4, (b[i] - 240) * 262144 + (b[i + 1] - 128) * 4096
                                   + (b[i + 2] - 128) * 64 + (b[i + 3] - 128))
    ELSE [err |-> TRUE, str |-> << >>]

\* The windows-1252 index of encoding_rs for the bytes 0x80..0x9F; every
\* other byte maps to the code point of its own value.
WINDOWS_1252_HIGH ==
    << 8364, 129, 8218, 402, 8222, 8230, 8224, 8225, 710, 8240, 352, 8249, 338, 141, 381, 143,
       144, 8216, 8217, 8220, 8221, 8226, 8211, 8212, 732, 8482, 353, 8250, 339, 157, 382, 376 >>

Windows1252Char(b) == IF b >= 128 /\ b <= 159 THEN WINDOWS_1252_HIGH[b - 127] ELSE b

\* Encoding::for_bom: the encoding a byte order mark at the start names
\* and the length of the mark.
ForBom(b) ==
    IF Len(b) >= 3 /\ SubSeq(b, 1, 3) = << 239, 187, 191 >> THEN [enc |-> "UTF-8", len |-> 3]
    ELSE IF Len(b) >= 2 /\ SubSeq(b, 1, 2) = << 255, 254 >> THEN [enc |-> "UTF-16LE", len |-> 2]
    ELSE IF Len(b) >= 2 /\ SubSeq(b, 1, 2) = << 254, 255 >> THEN [enc |-> "UTF-16BE", len |-> 2]
    ELSE [enc |-> "windows-1252", len |-> 0]

\* encoding_rs::WINDOWS_1252.decode(&chunk): Encoding::decode sniffs a byte
\* order mark first and decodes what follows it in the encoding the mark
\* names; without a mark the bytes are decoded as windows-1252, which has a
\* character for every byte.  The result is (str, had_errors).
Windows1252Decode(chunk) ==
    Pick({ Pick({ IF bom.enc = "UTF-8" THEN DecodeUtf8(rest, 1)
                  ELSE IF bom.enc = "UTF-16LE"
                       THEN Pick({ [err |-> r.err \/ Len(rest) % 2 = 1, str |-> r.str] :
                                   r \in { DecodeUtf16(Units(rest), 1) } })
                  ELSE IF bom.enc = "UTF-16BE"
                       THEN Pick({ [err |-> r.err \/ Len(rest) % 2 = 1, str |-> r.str] :
                                   r \in { DecodeUtf16(UnitsBE(rest), 1) } })
                  ELSE [err |-> FALSE,
                        str |-> Tuple([i \in 1..Len(rest) |-> Windows1252Char(rest[i])])] :
                  rest \in { SubSeq(chunk, bom.len + 1, Len(chunk)) } }) :
           bom \in { ForBom(chunk) } })

\* match kind { Negative(size) => size as usize, Positive(size) => (size * 2)
\* as usize }: the product is a u32 one, so a size of 2^31 or more overflows
\* it, which panics in a build with overflow checks and wraps in one without
StringSize(kind, overflow_checks) ==
    IF kind.neg THEN [res |-> "ok", size |-> kind.size]
    ELSE IF kind.size[4] >= 128 /\ overflow_checks THEN [res |-> "panic", size |-> Zero32]
    ELSE [res |-> "ok", size |-> WAdd(kind.size, kind.size)]

\* a u32 is at most n, and its value then
WordFits(w, n) == w[3] = 0 /\ w[4] = 0 /\ w[1] + 256 * w[2] <= n
WordNat(w) == w[1] + 256 * w[2]

\* copy_to_vec(size): vec![0; size] filled by copy_to_slice, which panics
\* when the data ends before size bytes, the cursor then at the end
CopyToVec(data, pos, size) ==
    IF WordFits(size, Len(data) - Min(pos, Len(data)))
    THEN CopyToSlice(data, pos, WordNat(size))
    ELSE [res |-> "panic", bytes |-> << >>, pos |-> Max(pos, Len(data))]

\* the Negative arm: mask, crypt, WINDOWS_1252.decode, had_error
DecodeNegative(cipher, chunk, pos) ==
    Pick({ [res |-> IF d.err THEN "InvalidCharacter" ELSE "ok", pos |-> pos,
            str |-> IF d.err THEN << >> ELSE d.str, n |-> Len(chunk)] :
           d \in { Windows1252Decode(AccCrypt(cipher, Mask8(chunk))) } })

\* the Positive arm: mask, crypt, char::decode_utf16
DecodePositive(cipher, chunk, pos) ==
    Pick({ [res |-> IF d.err THEN "InvalidCharacter" ELSE "ok", pos |-> pos,
            str |-> IF d.err THEN << >> ELSE d.str, n |-> Len(chunk)] :
           d \in { DecodeUtf16(Units(AccCrypt(cipher, Mask16(chunk))), 1) } })

\* decrypt_string_slice; n is the length of the chunk crypt was called on
DecryptStringSlice(cipher, data, pos, overflow_checks) ==
    Pick({ IF kind.res # "ok" THEN [res |-> "panic", pos |-> kind.pos, str |-> << >>, n |-> 0]
           ELSE Pick({
               IF sz.res # "ok"
               THEN [res |-> "panic", pos |-> kind.pos, str |-> << >>, n |-> 0]
               ELSE IF sz.size = Zero32
                    THEN [res |-> "ok", pos |-> kind.pos, str |-> << >>, n |-> 0]
               ELSE Pick({
                   IF c.res # "ok"
                   THEN [res |-> "panic", pos |-> c.pos, str |-> << >>, n |-> 0]
                   ELSE IF kind.neg THEN DecodeNegative(cipher, c.bytes, c.pos)
                   ELSE DecodePositive(cipher, c.bytes, c.pos) :
                   c \in { CopyToVec(data, kind.pos, sz.size) } }) :
               sz \in { StringSize(kind, overflow_checks) } }) :
           kind \in { GetVarU32LeAbs(data, pos) } })

\* accessor.decrypt_string_slice(), the build with or without overflow checks
DecryptStringSliceCall ==
    /\ acc.open /\ ret = NoRet
    /\ \E overflow_checks \in BOOLEAN :
       \E r \in { DecryptStringSlice(acc.cipher, acc.data, acc.pos, overflow_checks) } :
       \E cipher \in AccCryptAfter(acc.cipher, r.n) :
         /\ acc' = [acc EXCEPT !.pos = r.pos, !.cipher = cipher]
         /\ ret' = [name |-> "decrypt_string_slice", from |-> acc.pos, res |-> r.res,
                    val |-> r.str]
    /\ UNCHANGED opt

\* The strings the model reads: length prefixes of each form over bodies
\* whose masked bytes are plain letters, bytes of 0x80..0x9F, and the byte
\* values 0xEF 0xBB 0xBF 0xFE 0xFF; whole, cut short, and empty.
StringBytes == { 1, 235, 42, 43, 125, 85, 84, 69, 16, 19, 151, 114, 170, 171 }
StringData ==
    { << 255, 1 >>, << 0 >>, << 0, 5 >>, << >>, << 254, 1 >>, << 128, 1 >>,
      << 253, 85, 85, 0 >>, << 253, 69, 16, 19 >>, << 252, 69, 16, 19, 236 >>,
      << 252, 69, 16, 19, 45 >>, << 253, 42, 42, 123 >>,
      << 2, 151, 114, 171, 116 >>, << 2, 235, 170, 233, 170 >>,
      << 128, 2, 0, 0, 0, 235, 234 >>, << 128, 0, 0, 0, 0, 1 >>, << 128, 2, 0, 0, 128, 235, 234 >>,
      << 127, 1, 0, 0, 0, 235, 170 >>, << 127, 1, 0, 0, 128, 235, 170 >>,
      << 127, 0, 0, 0, 128 >>, << 127, 0, 0, 0, 0 >>, << 127, 9, 0, 0, 0, 1, 2 >> }
        \cup { << 254, a, b >> : a, b \in StringBytes }
        \cup { << 1, a, b >> : a, b \in StringBytes }
StringStarts == { 0, 1 }
StringCiphers == { NoneCipher, TableCipher(<< 1, 2, 3, 4 >>) }

(***************************************************************************)
(* Flagged strings and seek_back (reader/accessor.rs)                      *)
(***************************************************************************)
MaxAccCalls == 3
MaxEntries == 2     \* entries a pack file lists

\* get_decrypt_string: try_get_decrypt_string unwrapped, an Err a panic
GetDecryptString(cipher, data, pos, overflow_checks) ==
    Pick({ [res |-> IF r.res = "ok" THEN "ok" ELSE "panic", pos |-> r.pos, str |-> r.str,
            n |-> r.n] :
           r \in { DecryptStringSlice(cipher, data, pos, overflow_checks) } })

\* (the cursor left where the closure left it)
SeekBackStay(anchor, r) == r

\* seek_back(accessor, style, f): the cursor is put back on anchor once f has
\* returned; a panic of f unwinds past the second seek
SeekBack(anchor, r) == IF r.res = "panic" THEN r ELSE [r EXCEPT !.pos = anchor]

\* (the relative offset taken as absolute)
BackRefTargetBare(off, parent_offset, len) == IF off < 0 THEN len + 1 ELSE off

\* get_i32_le() as usize + parent_offset, where the sum stays below 2^64;
\* a negative i32 that the sum leaves at 2^63 or more is a position past the
\* end of every data, given here as len + 1
BackRefTarget(off, parent_offset, len) ==
    IF off + parent_offset < 0 THEN len + 1 ELSE off + parent_offset

\* the arm of a back-reference flag: the i32 offset, the usize sum, which
\* for a negative i32 of magnitude up to parent_offset passes 2^64 (a panic
\* with overflow checks, the wrapped sum without), and get_decrypt_string
\* under seek_back
BackRefString(cipher, data, pos, parent_offset, overflow_checks) ==
    Pick({ IF off.val < 0 /\ off.val + parent_offset >= 0 /\ overflow_checks
           THEN [res |-> "panic", pos |-> off.pos, str |-> << >>, n |-> 0, ovf |-> TRUE]
           ELSE Pick({ [res |-> r.res, pos |-> r.pos, str |-> r.str, n |-> r.n, ovf |-> FALSE] :
                       r \in { Pick({ SeekBack(off.pos, g) :
                                      g \in { GetDecryptString(cipher, data,
                                                BackRefTarget(off.val, parent_offset, Len(data)),
                                                overflow_checks) } }) } }) :
           off \in { GetI32Le(data, pos) } })

\* match self.get_u8() { inline => ..., back => ..., flag => Err(..) }: the
\* body shared by try_get_uol_string (0x00, 0x01, Err(UnexpectedData)) and
\* try_get_image_string (0x73, 0x1b, Err(flag))
FlaggedString(cipher, data, pos, parent_offset, overflow_checks, inline, back, err) ==
    Pick({ IF f.res # "ok"
           THEN [res |-> "panic", pos |-> f.pos, str |-> << >>, n |-> 0, ovf |-> FALSE, flag |-> 0]
           ELSE Pick({ [res |-> r.res, pos |-> r.pos, str |-> r.str, n |-> r.n, ovf |-> r.ovf,
                        flag |-> f.bytes[1]] :
                       r \in { IF f.bytes[1] = inline
                               THEN Pick({ [res |-> g.res, pos |-> g.pos, str |-> g.str,
                                            n |-> g.n, ovf |-> FALSE] :
                                           g \in { GetDecryptString(cipher, data, f.pos,
                                                                    overflow_checks) } })
                               ELSE IF f.bytes[1] = back
                               THEN BackRefString(cipher, data, f.pos, parent_offset,
                                                  overflow_checks)
                               ELSE [res |-> err, pos |-> f.pos, str |-> << >>, n |-> 0,
                                     ovf |-> FALSE] } }) :
           f \in { CopyToSlice(data, pos, 1) } })

TryGetUolString(cipher, data, pos, parent_offset, overflow_checks) ==
    FlaggedString(cipher, data, pos, parent_offset, overflow_checks, 0, 1, "UnexpectedData")

TryGetImageString(cipher, data, pos, parent_offset, overflow_checks) ==
    FlaggedString(cipher, data, pos, parent_offset, overflow_checks, 115, 27, "Err(flag)")

\* the accessor takes one more call: none has panicked, and fewer than
\* MaxAccCalls were made
AccReady ==
    /\ acc.open
    /\ IF ret = NoRet THEN TRUE ELSE ret.res # "panic" /\ ret.k < MaxAccCalls
Calls == IF ret = NoRet THEN 0 ELSE ret.k

\* accessor.seek(SeekFrom::Start(pos))
AccSeek(pos) ==
    /\ AccReady /\ pos # acc.pos
    /\ acc' = [acc EXCEPT !.pos = pos]
    /\ ret' = [name |-> "seek", from |-> acc.pos, res |-> "ok", k |-> Calls]
    /\ UNCHANGED opt

\* accessor.try_get_uol_string(parent_offset) or
\* accessor.try_get_image_string(parent_offset)
FlaggedStringCall(name, parent_offset) ==
    /\ AccReady
    /\ \E overflow_checks \in BOOLEAN :
       \E r \in { IF name = "try_get_uol_string"
                  THEN TryGetUolString(acc.cipher, acc.data, acc.pos, parent_offset,
                                       overflow_checks)
                  ELSE TryGetImageString(acc.cipher, acc.data, acc.pos, parent_offset,
                                         overflow_checks) } :
       \E cipher \in AccCryptAfter(acc.cipher, r.n) :
         /\ acc' = [acc EXCEPT !.pos = r.pos, !.cipher = cipher]
         /\ ret' = [name |-> name, from |-> acc.pos, res |-> r.res, val |-> r.str,
                    flag |-> r.flag, ovf |-> r.ovf, parent |-> parent_offset,
                    k |-> Calls + 1]
    /\ UNCHANGED opt

\* An image's bytes: an inline string of 20 bytes, a short string,
\* back-references to both in either flag, inline strings, back-references
\* with a negative offset, an unknown flag, and a back-reference cut short.
FlaggedData ==
    { << 0, 236, 3, 20, 37, 54, 71, 88, 105, 122, 139, 156, 173, 190, 207, 224, 241, 2, 19, 36,
         53, 70, 254, 1, 2, 1, 22, 0, 0, 0, 1, 1, 0, 0, 0, 0, 255, 7, 27, 22, 0, 0, 0, 115, 255,
         9, 1, 255, 255, 255, 255, 27, 253, 255, 255, 255, 5, 1, 22 >> }
FlaggedStarts == { 0, 25, 30, 35, 38, 43, 46, 51, 56, 57 }
FlaggedParents == { 0, 2 }

(***************************************************************************)
(* Image (entry/image.rs)                                                  *)
(***************************************************************************)
\* the tags of entry/index.rs, as their characters' code points
PROPERTY == << 80, 114, 111, 112, 101, 114, 116, 121 >>
CANVAS == << 67, 97, 110, 118, 97, 115 >>
CANVAS_VIDEO == << 67, 97, 110, 118, 97, 115, 35, 86, 105, 100, 101, 111 >>
SHAPE2D_CONVEX2D == << 83, 104, 97, 112, 101, 50, 68, 35, 67, 111, 110, 118, 101, 120, 50, 68 >>
SHAPE2D_VECTOR2D == << 83, 104, 97, 112, 101, 50, 68, 35, 86, 101, 99, 116, 111, 114, 50, 68 >>
UOL_TAG == << 85, 79, 76 >>
SOUND_DX8 == << 83, 111, 117, 110, 100, 95, 68, 88, 56 >>
RAW_DATA == << 82, 97, 119, 68, 97, 116, 97 >>

\* match kind.as_str() { ... }: the EntryKind of a tag, "none" for the _ arm
ImageKindOf(tag) ==
    IF tag = PROPERTY THEN "Property(Encode)"
    ELSE IF tag = CANVAS THEN "Image(Canvas)"
    ELSE IF tag = CANVAS_VIDEO THEN "Image(Video)"
    ELSE IF tag = SHAPE2D_CONVEX2D THEN "Image(Convex2D)"
    ELSE IF tag = SHAPE2D_VECTOR2D THEN "Image(Vector2D)"
    ELSE IF tag = UOL_TAG THEN "Image(UOL)"
    ELSE IF tag = SOUND_DX8 THEN "Image(Sound)"
    ELSE IF tag = RAW_DATA THEN "Image(RawData)"
    ELSE "none"

\* get_utf8_string(size): copy_to_slice, then String::from_utf8 unwrapped
GetUtf8String(data, pos, size) ==
    Pick({ IF c.res # "ok" THEN [res |-> "panic", pos |-> c.pos, str |-> << >>]
           ELSE Pick({ [res |-> IF d.err THEN "panic" ELSE "ok", pos |-> c.pos,
                        str |-> IF d.err THEN << >> ELSE d.str] :
                       d \in { DecodeUtf8(c.bytes, 1) } }) :
           c \in { CopyToSlice(data, pos, size) } })

\* the Err(flag) arm of Image::try_from_accessor
ImageByFlag(data, pos, flag) ==
    IF flag = 35
    THEN Pick({ IF u.res # "ok" THEN [res |-> "panic", pos |-> u.pos, kind |-> "none", offset |-> 0]
                ELSE IF u.str = PROPERTY
                     THEN [res |-> "ok", pos |-> u.pos, kind |-> "Property(Plain)",
                           offset |-> u.pos]
                ELSE [res |-> "UnexpectedData", pos |-> u.pos, kind |-> "none", offset |-> 0] :
                u \in { GetUtf8String(data, pos, 8) } })
    ELSE IF flag = 1
         THEN [res |-> "ok", pos |-> pos, kind |-> "Image(Script)", offset |-> pos - 1]
    ELSE [res |-> "UnexpectedData", pos |-> pos, kind |-> "none", offset |-> 0]

\* Image::try_from_accessor(opt, accessor); n is the length of the chunk
\* the tag's crypt was called on
ImageFromAccessor(cipher, data, pos, parent_offset, overflow_checks) ==
    Pick({ IF k.res = "panic"
           THEN [res |-> "panic", pos |-> k.pos, kind |-> "none", offset |-> 0, n |-> k.n]
           ELSE IF k.res = "ok"
                THEN IF ImageKindOf(k.str) = "none"
                     THEN [res |-> "UnexpectedData", pos |-> k.pos, kind |-> "none",
                           offset |-> 0, n |-> k.n]
                     ELSE [res |-> "ok", pos |-> k.pos, kind |-> ImageKindOf(k.str),
                           offset |-> k.pos, n |-> k.n]
           ELSE Pick({ [res |-> f.res, pos |-> f.pos, kind |-> f.kind, offset |-> f.offset,
                        n |-> 0] :
                       f \in { ImageByFlag(data, k.pos, k.flag) } }) :
           k \in { TryGetImageString(cipher, data, pos, parent_offset, overflow_checks) } })

\* Image::try_from_accessor(opt, accessor) with opt.parent_offset
ImageCall(parent_offset) ==
    /\ acc.open /\ ret = NoRet
    /\ \E overflow_checks \in BOOLEAN :
       \E r \in { ImageFromAccessor(acc.cipher, acc.data, acc.pos, parent_offset,
                                    overflow_checks) } :
       \E cipher \in AccCryptAfter(acc.cipher, r.n) :
         /\ acc' = [acc EXCEPT !.pos = r.pos, !.cipher = cipher]
         /\ ret' = [name |-> "Image::try_from_accessor", from |-> acc.pos, res |-> r.res,
                    kind |-> r.kind, offset |-> r.offset, parent |-> parent_offset]
    /\ UNCHANGED opt

\* The nodes the dispatcher is run on, each after one byte of something
\* else: every tag of entry/index.rs and some that are none, inline (under
\* the null cipher, three under the MapleTable of IV 1 2 3 4, one wide) and
\* as back-references; the flag 0x23 before "Property", before other bytes,
\* before bytes that are not UTF-8 and before too few; the flag 0x01; other
\* flags; nothing.
ImageData ==
    { << 9, 115, 248, 250, 217, 195, 221, 203, 221, 196, 200 >>,
      << 9, 115, 250, 233, 202, 194, 219, 207, 220 >>,
      << 9, 115, 244, 233, 202, 194, 219, 207, 220, 147, 231, 219, 215, 209, 218 >>,
      << 9, 115, 240, 249, 195, 205, 221, 203, 157, 244, 146, 241, 220, 218, 195, 211, 207, 138, 253 >>,
      << 9, 115, 240, 249, 195, 205, 221, 203, 157, 244, 146, 228, 214, 215, 193, 217, 197, 138, 253 >>,
      << 9, 115, 253, 255, 228, 224 >>,
      << 9, 115, 247, 249, 196, 217, 195, 202, 240, 244, 233, 138 >>,
      << 9, 115, 249, 248, 202, 219, 233, 207, 219, 209 >>,
      << 9, 115, 253, 236, 196, 195 >>,
      << 9, 115, 248, 218, 217, 195, 221, 203, 221, 196, 200 >>,
      << 9, 115, 249, 233, 202, 194, 219, 207, 220, 147 >>,
      << 9, 115, 250, 249, 200, 222, 196, 222, 219 >>,
      << 9, 115, 250, 236, 196, 192, 201, 203, 221 >>,
      << 9, 115, 250, 25, 36, 102, 9, 135, 73 >>,
      << 9, 115, 247, 9, 42, 125, 17, 130, 101, 34, 214, 74 >>,
      << 9, 115, 240, 9, 45, 105, 15, 131, 8, 34, 173, 36, 35, 23, 76, 72, 103, 236, 94 >>,
      << 9, 115, 6, 233, 170, 202, 170, 194, 170, 219, 170, 207, 170, 220, 170 >>,
      << 9, 115, 0 >>,
      << 9, 27, 7, 0, 0, 0, 9, 253, 255, 228, 224 >>,
      << 9, 27, 6, 0, 0, 0, 9, 249, 248, 202, 219, 233, 207, 219, 209, 0 >>,
      << 9, 35, 80, 114, 111, 112, 101, 114, 116, 121, 13, 10 >>,
      << 9, 35, 80, 114, 111, 112, 101, 114, 116, 122 >>,
      << 9, 35, 80, 114, 111, 112, 101, 114, 116, 255 >>,
      << 9, 35, 80, 114, 111 >>,
      << 9, 35 >>,
      << 9, 1, 3, 65, 66, 67 >>,
      << 9, 1 >>,
      << 9, 0, 1, 2 >>,
      << 9, 2, 1, 2 >>,
      << 9, 34, 1, 2 >>,
      << 9, 36, 1, 2 >>,
      << 9, 116, 1, 2 >>,
      << 9, 26, 1, 2 >>,
      << 9, 255, 1, 2 >>,
      << 9 >>,
      <<  >> }
ImageStarts == { 0, 1 }
ImageParents == { 0, 1 }

(***************************************************************************)
(* compute_offset (entry/directory.rs)                                     *)
(***************************************************************************)
\* w.wrapping_mul(h), h below 2^16
WMulU16(w, h) ==
    Pick({ Pick({ Pick({ Pick({ << t1 % 256, t2 % 256, t3 % 256, t4 % 256 >> :
                               t4 \in { w[4] * h + (t3 \div 256) } }) :
                        t3 \in { w[3] * h + (t2 \div 256) } }) :
                 t2 \in { w[2] * h + (t1 \div 256) } }) :
           t1 \in { w[1] * h } })

\* w << n and w >> n for n in 0..31
RECURSIVE Shl32(_, _)
Shl32(w, n) == IF n = 0 THEN w ELSE Pick({ Shl32(d, n - 1) : d \in { WAdd(w, w) } })

Shr1(w) ==
    Pick({ << (x[1] \div 2) + 128 * (x[2] % 2), (x[2] \div 2) + 128 * (x[3] % 2),
              (x[3] \div 2) + 128 * (x[4] % 2), x[4] \div 2 >> : x \in { w } })

RECURSIVE Shr32(_, _)
Shr32(w, n) == IF n = 0 THEN w ELSE Pick({ Shr32(d, n - 1) : d \in { Shr1(w) } })

\* 0x581c3f6d
OFFSET_MAGIC == << 109, 63, 28, 88 >>

\* (the position difference not inverted)
OffsetKeyPlain(pos, data_pos, hash) ==
    WSub(WMulU16(ToWord(pos - data_pos), hash), OFFSET_MAGIC)

\* (pos.wrapping_sub(data_pos) as u32 ^ u32::MAX).wrapping_mul(hash)
\*     .wrapping_sub(0x581c3f6d)
OffsetKey(pos, data_pos, hash) ==
    WSub(WMulU16(WNot(ToWord(pos - data_pos)), hash), OFFSET_MAGIC)

\* compute_offset(opt, accessor): pos is taken before get_u32_le moves it;
\* wrapping_shl and wrapping_shr take the shift modulo 32
compute_offset(o, data, pos) ==
    Pick({ Pick({ [res |-> enc_offset.res, pos |-> enc_offset.pos, enc |-> enc_offset.val,
                   val |-> WAdd(WXor(WOr(Shl32(offset, factor % 32),
                                         Shr32(offset, (32 - factor) % 32)),
                                     enc_offset.val),
                                Shl32(ToWord(o.parent_offset), 1))] :
                  factor \in { offset[1] % 32 },
                  enc_offset \in { GetU32Le(data, pos) } }) :
           offset \in { OffsetKey(pos, o.parent_offset, o.ver_hash) } })

\* the AccessorOpt a directory is read with
WithOpt(ver_hash, parent_offset) ==
    /\ ~opt.set
    /\ opt' = [set |-> TRUE, ver_hash |-> ver_hash, parent_offset |-> parent_offset]
    /\ UNCHANGED << acc, ret >>

\* compute_offset(&opt, accessor)
ComputeOffsetCall ==
    /\ acc.open /\ opt.set /\ ret = NoRet
    /\ \E r \in { compute_offset(opt, acc.data, acc.pos) } :
         /\ acc' = [acc EXCEPT !.pos = r.pos]
         /\ ret' = [name |-> "compute_offset", from |-> acc.pos, res |-> r.res,
                    val |-> r.val, enc |-> r.enc]
    /\ UNCHANGED opt

VerHashes == { 4660, 65535, 0, 1 }
ParentOffsets == { 0, 16, 64 }
OffsetStarts == { 0, 12, 48 }
EncWords == { << 207, 179, 240, 211 >>, << 0, 0, 0, 0 >>, << 239, 190, 173, 222 >>,
              << 1, 0, 0, 128 >>, << 255, 255, 255, 255 >> }
OffsetData == { Zeros(n) \o w \o << 0 >> : n \in OffsetStarts, w \in EncWords }

InitAcc ==
    /\ acc = NoAcc
    /\ opt = NoOpt
    /\ ret = NoRet

(***************************************************************************)
(* Directory and Directories (entry/directory.rs)                          *)
(***************************************************************************)
UNKNOWN == 1
UOL == 2
FOLDER == 3
IMAGE == 4

NoDir == [name |-> << >>, kind |-> "none", offset |-> Zero32, parent_offset |-> Zero32]

\* a u32 as usize plus base as a position: below 2^16 as it is, and
\* otherwise a position past the end of every data, given as len + 1
WordPos(w, base, len) == IF WordFits(w, 65535) THEN WordNat(w) + base ELSE len + 1

\* what an entry's parse gives when it panics, fails, or skips a record
DirPanic(pos, ns) == [res |-> "panic", pos |-> pos, some |-> FALSE, dir |-> NoDir, ns |-> ns]
DirErr(pos, ns) ==
    [res |-> "UnexpectedData", pos |-> pos, some |-> FALSE, dir |-> NoDir, ns |-> ns]

\* the else arm of let (kind, name): panic!("invalid element kind {kind}")
DirInvalidKind(pos) == [res |-> "panic", pos |-> pos, kind |-> 0, name |-> << >>, n |-> 0]

\* (the u32 offset taken as a position of the file)
AliasTargetAbsolute(off, parent_offset, len) == WordPos(off, 0, len)

\* let off = accessor.get_u32_le() as usize + opt.parent_offset
AliasTarget(off, parent_offset, len) == WordPos(off, parent_offset, len)

\* let (kind, name) = ...: for UOL the u32 offset plus parent_offset and,
\* under seek_back, the kind byte and the name stored there; for IMAGE and
\* FOLDER the name that follows
DirKindName(cipher, data, pos, kind, parent_offset, overflow_checks) ==
    IF kind = UOL
    THEN Pick({ Pick({
             IF k.res # "ok"
             THEN [res |-> "panic", pos |-> k.pos, kind |-> 0, name |-> << >>, n |-> 0]
             ELSE Pick({ Pick({ SeekBack(off.pos, r) :
                                r \in { [res |-> g.res, pos |-> g.pos, kind |-> k.bytes[1],
                                         name |-> g.str, n |-> g.n] } }) :
                         g \in { GetDecryptString(cipher, data, k.pos, overflow_checks) } }) :
             k \in { CopyToSlice(data, AliasTarget(off.val, parent_offset, Len(data)), 1) } }) :
           off \in { GetU32Le(data, pos) } })
    ELSE IF kind = IMAGE \/ kind = FOLDER
    THEN Pick({ [res |-> g.res, pos |-> g.pos, kind |-> kind, name |-> g.str, n |-> g.n] :
                g \in { GetDecryptString(cipher, data, pos, overflow_checks) } })
    ELSE DirInvalidKind(pos)

\* size, _checksum and data_offset
DirTail(o, data, pos) ==
    Pick({ IF size.res # "ok" THEN [res |-> "panic", pos |-> size.pos]
           ELSE Pick({ IF checksum.res # "ok" THEN [res |-> "panic", pos |-> checksum.pos]
                       ELSE Pick({ [res |-> "ok", pos |-> data_offset.pos, size |-> size.val,
                                    data_offset |-> data_offset.val, field |-> checksum.pos] :
                                   data_offset \in { compute_offset(o, data, checksum.pos) } }) :
                       checksum \in { GetVarI32Le(data, size.pos) } }) :
           size \in { GetVarI32Le(data, pos) } })

\* match kind { IMAGE => ..., FOLDER => ..., _ => Err(UnexpectedData) }
DirMatch(cipher, o, data, nm, t, overflow_checks) ==
    IF nm.kind = IMAGE
    THEN Pick({ IF image.res = "panic" THEN DirPanic(image.pos, << nm.n, image.n >>)
                ELSE IF image.res # "ok" THEN DirErr(image.pos, << nm.n, image.n >>)
                ELSE [res |-> "ok", pos |-> image.pos, some |-> TRUE, ns |-> << nm.n, image.n >>,
                      dir |-> [name |-> nm.name, kind |-> image.kind,
                               offset |-> ToWord(image.offset),
                               parent_offset |-> t.data_offset]] :
                image \in { Pick({ SeekBack(t.pos, r) :
                                   r \in { ImageFromAccessor(cipher, data,
                                               WordPos(t.data_offset, 0, Len(data)),
                                               o.parent_offset, overflow_checks) } }) } })
    ELSE IF nm.kind = FOLDER
    THEN [res |-> "ok", pos |-> t.pos, some |-> TRUE, ns |-> << nm.n >>,
          dir |-> [name |-> nm.name, kind |-> "Folder", offset |-> t.data_offset,
                   parent_offset |-> ToWord(o.parent_offset)]]
    ELSE DirErr(t.pos, << nm.n >>)

\* <Option<Directory> as TryFromAccessor>::try_from_accessor(opt, accessor)
DirectoryFromAccessor(cipher, o, data, pos, overflow_checks) ==
    Pick({ IF kind.res # "ok" THEN DirPanic(kind.pos, << >>)
           ELSE IF kind.bytes[1] = UNKNOWN
                THEN [res |-> "ok", pos |-> kind.pos + 10, some |-> FALSE, dir |-> NoDir,
                      ns |-> << >>]
           ELSE Pick({
               IF nm.res # "ok" THEN DirPanic(nm.pos, << nm.n >>)
               ELSE Pick({ IF t.res # "ok" THEN DirPanic(t.pos, << nm.n >>)
                           ELSE DirMatch(cipher, o, data, nm, t, overflow_checks) :
                           t \in { DirTail(o, data, nm.pos) } }) :
               nm \in { DirKindName(cipher, data, kind.pos, kind.bytes[1], o.parent_offset,
                                    overflow_checks) } }) :
           kind \in { CopyToSlice(data, pos, 1) } })

\* (every record pushed, an Unknown one as an entry of no kind)
PushAll(directories, d) == Append(directories, d.dir)

\* let Some(directory) = ... else { continue }; directories.push(directory)
Push(directories, d) == IF d.some THEN Append(directories, d.dir) ELSE directories

\* the for loop of Directories::try_from_accessor, left iterations to go:
\* a None is skipped, an Err returned by `?`
RECURSIVE DirLoop(_, _, _, _, _, _, _, _)
DirLoop(cipher, o, data, pos, left, directories, ns, overflow_checks) ==
    IF left = 0
    THEN [res |-> "ok", pos |-> pos, directories |-> directories, ns |-> ns]
    ELSE Pick({ IF d.res # "ok"
                THEN [res |-> d.res, pos |-> d.pos, directories |-> << >>, ns |-> ns \o d.ns]
                ELSE DirLoop(cipher, o, data, d.pos, left - 1,
                             Push(directories, d),
                             ns \o d.ns, overflow_checks) :
                d \in { DirectoryFromAccessor(cipher, o, data, pos, overflow_checks) } })

\* <Directories as TryFromAccessor>::try_from_accessor(opt, accessor):
\* entry_count is get_var_i32_le() as usize, and Vec::with_capacity of a
\* negative count taken as usize panics
DirectoriesFromAccessor(cipher, o, data, pos, overflow_checks) ==
    Pick({ IF entry_count.res # "ok" \/ entry_count.val < 0
           THEN [res |-> "panic", pos |-> entry_count.pos, directories |-> << >>, ns |-> << >>]
           ELSE DirLoop(cipher, o, data, entry_count.pos, entry_count.val, << >>, << >>,
                        overflow_checks) :
           entry_count \in { GetVarI32Le(data, pos) } })

\* the cipher after crypt calls on chunks of the lengths ns, one after another
RECURSIVE AccCryptAfterAll(_, _)
AccCryptAfterAll(cipher, ns) ==
    IF ns = << >> THEN { cipher }
    ELSE UNION { AccCryptAfterAll(c, Tail(ns)) : c \in AccCryptAfter(cipher, Head(ns)) }

\* Option::<Directory>::try_from_accessor(opt, accessor)
DirectoryCall ==
    /\ AccReady /\ opt.set
    /\ \E overflow_checks \in BOOLEAN :
       \E r \in { DirectoryFromAccessor(acc.cipher, opt, acc.data, acc.pos, overflow_checks) } :
       \E cipher \in AccCryptAfterAll(acc.cipher, r.ns) :
         /\ acc' = [acc EXCEPT !.pos = r.pos, !.cipher = cipher]
         /\ ret' = [name |-> "Directory::try_from_accessor", from |-> acc.pos, res |-> r.res,
                    some |-> r.some, dir |-> r.dir, k |-> Calls + 1]
    /\ UNCHANGED opt

\* Directories::try_from_accessor(opt, accessor)
DirectoriesCall ==
    /\ AccReady /\ opt.set
    /\ \E overflow_checks \in BOOLEAN :
       \E r \in { DirectoriesFromAccessor(acc.cipher, opt, acc.data, acc.pos,
                                          overflow_checks) } :
       \E cipher \in AccCryptAfterAll(acc.cipher, r.ns) :
         /\ acc' = [acc EXCEPT !.pos = r.pos, !.cipher = cipher]
         /\ ret' = [name |-> "Directories::try_from_accessor", from |-> acc.pos,
                    res |-> r.res, directories |-> r.directories, k |-> Calls + 1]
    /\ UNCHANGED opt

\* Archives' directory bytes, for ver_hash 0x1234 and parent_offset 4: at 4
\* a folder of 5 records (a folder named a, an Unknown record, an image b
\* tagged Property, a UOL record whose name c is stored at 59 and whose
\* image is tagged Canvas through a back-reference, an image d that is a
\* script), at 58 an empty folder.  The first is under the null cipher, the
\* second under the MapleTable of IV 1 2 3 4; the others have a record of
\* kind 5, a name record of kind 7, an image tagged Foo, and a count of -1;
\* the last has at 4 an alias of offset 20, with the folder a named at 20
\* and the folder b at 24.
DirData ==
    {
      << 9, 9, 9, 9, 5, 3, 255, 203, 0, 0, 225, 147, 160, 241, 1, 7, 7, 7, 7, 7, 7, 7, 7, 7,
         7, 4, 255, 200, 5, 1, 220, 240, 211, 139, 2, 55, 0, 0, 0, 6, 2, 38, 8, 63, 221, 4,
         255, 206, 128, 44, 1, 0, 0, 0, 92, 240, 211, 27, 0, 4, 255, 201, 115, 248, 250,
         217, 195, 221, 203, 221, 196, 200, 27, 73, 0, 0, 0, 250, 233, 202, 194, 219, 207,
         220, 1, 3, 1, 2, 3 >>,
      << 9, 9, 9, 9, 5, 3, 255, 59, 0, 0, 225, 147, 160, 241, 1, 7, 7, 7, 7, 7, 7, 7, 7, 7,
         7, 4, 255, 56, 5, 1, 220, 240, 211, 139, 2, 55, 0, 0, 0, 6, 2, 38, 8, 63, 221, 4,
         255, 62, 128, 44, 1, 0, 0, 0, 92, 240, 211, 27, 0, 4, 255, 57, 115, 248, 10, 55,
         103, 15, 131, 72, 18, 247, 27, 73, 0, 0, 0, 250, 25, 36, 102, 9, 135, 73, 1, 3, 1,
         2, 3 >>,
      << 9, 9, 9, 9, 5, 3, 255, 203, 0, 0, 225, 147, 160, 241, 1, 7, 7, 7, 7, 7, 7, 7, 7, 7,
         7, 4, 255, 200, 5, 1, 220, 240, 211, 139, 2, 55, 0, 0, 0, 6, 2, 38, 8, 63, 221, 5,
         255, 206, 128, 44, 1, 0, 0, 0, 92, 240, 211, 27, 0, 4, 255, 201, 115, 248, 250,
         217, 195, 221, 203, 221, 196, 200, 27, 73, 0, 0, 0, 250, 233, 202, 194, 219, 207,
         220, 1, 3, 1, 2, 3 >>,
      << 9, 9, 9, 9, 5, 3, 255, 203, 0, 0, 225, 147, 160, 241, 1, 7, 7, 7, 7, 7, 7, 7, 7, 7,
         7, 4, 255, 200, 5, 1, 220, 240, 211, 139, 2, 55, 0, 0, 0, 6, 2, 38, 8, 63, 221, 4,
         255, 206, 128, 44, 1, 0, 0, 0, 92, 240, 211, 27, 0, 7, 255, 201, 115, 248, 250,
         217, 195, 221, 203, 221, 196, 200, 27, 73, 0, 0, 0, 250, 233, 202, 194, 219, 207,
         220, 1, 3, 1, 2, 3 >>,
      << 9, 9, 9, 9, 5, 3, 255, 203, 0, 0, 225, 147, 160, 241, 1, 7, 7, 7, 7, 7, 7, 7, 7, 7,
         7, 4, 255, 200, 5, 1, 220, 240, 211, 139, 2, 55, 0, 0, 0, 6, 2, 93, 8, 63, 221, 4,
         255, 206, 128, 44, 1, 0, 0, 0, 87, 240, 211, 27, 0, 4, 255, 201, 115, 253, 236,
         196, 195, 27, 68, 0, 0, 0, 250, 233, 202, 194, 219, 207, 220, 1, 3, 1, 2, 3 >>,
      << 9, 9, 9, 9, 255, 3, 255, 203, 0, 0, 225, 147, 160, 241, 1, 7, 7, 7, 7, 7, 7, 7, 7,
         7, 7, 4, 255, 200, 5, 1, 220, 240, 211, 139, 2, 55, 0, 0, 0, 6, 2, 38, 8, 63, 221,
         4, 255, 206, 128, 44, 1, 0, 0, 0, 92, 240, 211, 27, 0, 4, 255, 201, 115, 248, 250,
         217, 195, 221, 203, 221, 196, 200, 27, 73, 0, 0, 0, 250, 233, 202, 194, 219, 207,
         220, 1, 3, 1, 2, 3 >>,
      << 9, 9, 9, 9, 2, 20, 0, 0, 0, 6, 2, 1, 2, 3, 4, 9, 9, 9, 9, 9, 3, 255, 203, 9, 3, 255,
         200 >> }
DirStarts == { 4, 5, 14, 25, 34, 45, 58, 72 }
DirHashes == { 4660, 1 }
DirParents == { 4, 0 }

(***************************************************************************)
(* The WZ container header (reader/wizet.rs) and the version hash          *)
(* (crypto/version.rs).  usize is 64 bits wide: a u64 is kept as its 8     *)
(* little-endian bytes, a u32 as its 4.                                    *)
(***************************************************************************)
WIZET_SIGNATURE == << 80, 75, 71, 49 >>

Ones32 == << 255, 255, 255, 255 >>

\* self.0.to_string().into_bytes(): the decimal digits as ASCII codes
RECURSIVE DecimalBytes(_)
DecimalBytes(n) ==
    IF n < 10 THEN << 48 + n >> ELSE Append(DecimalBytes(n \div 10), 48 + (n % 10))

\* fold(0, |hash, v| (hash << 5) + v.wrapping_add(1) as u16) over bytes
\* from the i-th on: << drops the bits shifted out of the u16, and the sum
\* of a multiple of 32 and a digit's code + 1 (49..58) has no carry out of it
RECURSIVE HashFold(_, _, _)
HashFold(hash, bytes, i) ==
    IF i > Len(bytes) THEN hash
    ELSE HashFold(((hash * 32) % 65536) + ((bytes[i] + 1) % 256), bytes, i + 1)

\* MapleVersion::hash
hash(ver) == HashFold(0, DecimalBytes(ver), 1)

\* hash.checked_shr(s).unwrap_or(0) on a u16: None from 16 bits on
CheckedShr(h, s) == IF s >= 16 THEN 0 ELSE h \div (2 ^ s)

\* (0..4).fold(0xff, |enc, i| enc ^ (hash.checked_shr(i << 3).unwrap_or(0) & 0xff))
RECURSIVE HashEncFold(_, _, _)
HashEncFold(enc, h, i) ==
    IF i = 4 THEN enc
    ELSE HashEncFold(Xor8(enc, CheckedShr(h, 8 * i) % 256), h, i + 1)

\* MapleVersion::hash_enc
hash_enc(ver) == HashEncFold(255, hash(ver), 0)

\* hash << 5 on a u16: the bits shifted out are dropped
Shl5Unbounded(h) == h * 32
Shl5(h) == (h * 32) % 65536

\* the fold of MapleVersion::hash step by step, with the u16 addition's
\* outcomes: a sum of 2^16 or more is a panic in a build with overflow
\* checks, and wraps in one without
RECURSIVE HashFoldChecked(_, _, _, _, _)
HashFoldChecked(h, bytes, i, overflow_checks, wrapped) ==
    IF i > Len(bytes) THEN [res |-> "ok", val |-> h, wrapped |-> wrapped]
    ELSE LET sum == Shl5(h) + ((bytes[i] + 1) % 256)
         IN  IF sum < 65536
             THEN HashFoldChecked(sum, bytes, i + 1, overflow_checks, wrapped)
             ELSE IF overflow_checks THEN [res |-> "panic", val |-> 0, wrapped |-> FALSE]
             ELSE HashFoldChecked(sum % 65536, bytes, i + 1, overflow_checks, TRUE)

\* MapleVersion(u16): every value of the type
AllVersions == 0..(2 ^ 16 - 1)

\* MapleVersion::hash(self), called on any version
HashCall ==
    /\ ret = NoRet
    /\ \E ver \in AllVersions, overflow_checks \in BOOLEAN :
       \E r \in { HashFoldChecked(0, DecimalBytes(ver), 1, overflow_checks, FALSE) } :
         ret' = [name |-> "MapleVersion::hash", from |-> 0, res |-> r.res, ver |-> ver,
                 val |-> r.val, wrapped |-> r.wrapped, k |-> 1]
    /\ UNCHANGED << acc, opt >>

\* MapleVersion::hash_enc(self), called on any version: let hash =
\* self.hash(); then the fold over the four shifts
HashEncCall ==
    /\ ret = NoRet
    /\ \E ver \in AllVersions, overflow_checks \in BOOLEAN :
       \E r \in { HashFoldChecked(0, DecimalBytes(ver), 1, overflow_checks, FALSE) } :
         ret' = [name |-> "MapleVersion::hash_enc", from |-> 0, res |-> r.res, ver |-> ver,
                 val |-> IF r.res = "ok" THEN HashEncFold(255, r.val, 0) ELSE 0,
                 wrapped |-> r.wrapped, k |-> 1]
    /\ UNCHANGED << acc, opt >>

\* get_u16_le and get_u64_le, by buf_try_get_impl!: whatever the count read
GetU16Le(data, pos) ==
    Pick({ [res |-> "ok", pos |-> r.pos, val |-> r.bytes[1] + 256 * r.bytes[2]] :
           r \in { AccRead(data, pos, 2) } })
GetU64Le(data, pos) ==
    Pick({ [res |-> "ok", pos |-> r.pos, val |-> r.bytes] : r \in { AccRead(data, pos, 8) } })

\* accessor.len() - data_size != header_size, len below 2^16: the usize
\* subtraction passes below zero when data_size is above len, which a build
\* with overflow checks stops with a panic and one without wraps modulo 2^64
LenCheck(len, data_size, header_size, overflow_checks) ==
    LET lo == SubSeq(data_size, 1, 4)
        hi == SubSeq(data_size, 5, 8)
        borrow == ~WordFits(lo, len)
    IN  IF (hi # Zero32 \/ borrow) /\ overflow_checks THEN "panic"
        ELSE IF /\ WSub(ToWord(len), lo) = header_size
                /\ \/ hi = Zero32 /\ ~borrow
                   \/ hi = Ones32 /\ borrow
             THEN "ok"
        ELSE "BrokenFile"

\* vec![0; header_size - accessor.pos() - 1], copy_to_slice and
\* String::from_utf8(..).unwrap(): a size below zero panics on the overflow
\* check or wraps to a length no Vec can have, a short copy panics, and so
\* does a copyright that is not UTF-8
Copyright(data, pos, header_size) ==
    IF ~WordFits(header_size, 65535) THEN [res |-> "panic", pos |-> Len(data), str |-> << >>]
    ELSE IF WordNat(header_size) < pos + 1 THEN [res |-> "panic", pos |-> pos, str |-> << >>]
    ELSE GetUtf8String(data, pos, WordNat(header_size) - pos - 1)

\* if !no_version { try_seek(Start(header_size)); ver.hash_enc() != get_u16_le() }
VersionGateOpen(no_version, stored, enc) == TRUE
VersionGate(no_version, stored, enc) == no_version \/ stored = enc

\* what WizetFile::new returns
WizetRet(res, pos, data_pos, copyright) ==
    [res |-> res, pos |-> pos, data_pos |-> data_pos, copyright |-> copyright]

\* WizetFile::new(path, ver, no_version) on a file of the bytes data
WizetFileNew(data, ver, no_version, overflow_checks) ==
    Pick({ IF sig.val # WIZET_SIGNATURE
           THEN WizetRet("BrokenFile", sig.pos, Zero32, << >>)
           ELSE Pick({ Pick({ Pick({
               IF chk # "ok" THEN WizetRet(chk, header_size.pos, Zero32, << >>)
               ELSE Pick({
                   IF c.res # "ok" THEN WizetRet("panic", c.pos, Zero32, << >>)
                   ELSE Pick({ WizetRet(IF VersionGate(no_version, v.val, hash_enc(ver))
                                        THEN "ok" ELSE "InvalidVersion",
                                        IF no_version THEN c.pos ELSE v.pos,
                                        header_size.val, c.str) :
                               v \in { GetU16Le(data, WordNat(header_size.val)) } }) :
                   c \in { Copyright(data, header_size.pos, header_size.val) } }) :
               chk \in { LenCheck(Len(data), data_size.val, header_size.val,
                                  overflow_checks) } }) :
               header_size \in { GetU32Le(data, data_size.pos) } }) :
               data_size \in { GetU64Le(data, sig.pos) } }) :
           sig \in { GetU32Le(data, 0) } })

\* WizetFile::new: the accessor is the one new builds over the file
WizetNew(data, ver, no_version) ==
    /\ ~acc.open /\ ret = NoRet
    /\ \E overflow_checks \in BOOLEAN :
       \E r \in { WizetFileNew(data, ver, no_version, overflow_checks) } :
         /\ acc' = [open |-> TRUE, data |-> data, pos |-> r.pos, cipher |-> NoneCipher]
         /\ ret' = [name |-> "WizetFile::new", from |-> 0, res |-> r.res, ver |-> ver,
                    no_version |-> no_version, data_pos |-> r.data_pos,
                    copyright |-> r.copyright, k |-> 1]
    /\ UNCHANGED opt

\* WizetFile::accessor_opt: ver_hash and parent_offset of the file opened
WizetAccessorOpt ==
    /\ ret # NoRet /\ ~opt.set
    /\ ret.name = "WizetFile::new" /\ ret.res = "ok"
    /\ opt' = [set |-> TRUE, ver_hash |-> hash(ret.ver),
               parent_offset |-> WordNat(ret.data_pos)]
    /\ UNCHANGED << acc, ret >>

\* a u64 below 2^16 as its 8 bytes
U64Of(n) == ToWord(n) \o Zero32

\* The files: every header of a signature, a data size and a header size
\* from the sets below before one of the bodies (a copyright ab, its zero
\* byte and the u16 172 of version 83 with one more byte; the same cut
\* after the zero byte, and after the first byte of the u16; a copyright
\* that is not UTF-8; nothing; an empty copyright; a u16 that is not a
\* version's), and files cut inside the header.
WizetSignatures == { WIZET_SIGNATURE, << 80, 75, 71, 50 >> }
WizetDataSizes == { U64Of(0), U64Of(1), U64Of(2), U64Of(3), U64Of(100), Ones32 \o Ones32 }
WizetHeaderSizes == { ToWord(16), ToWord(17), ToWord(18), ToWord(19), ToWord(20) }
WizetBodies ==
    { << 97, 98, 0, 172, 0, 9 >>, << 97, 98, 0 >>, << 97, 98, 0, 172 >>,
      << 255, 0, 172, 0 >>, << >>, << 0, 172, 0 >>, << 97, 98, 0, 173, 0, 9 >> }
WizetFiles ==
    { sig \o ds \o hs \o body : sig \in WizetSignatures, ds \in WizetDataSizes,
                                 hs \in WizetHeaderSizes, body \in WizetBodies }
        \cup { << >>, << 80, 75 >>, WIZET_SIGNATURE,
               WIZET_SIGNATURE \o U64Of(0) \o << 13 >> }
Versions == { 83, 58, 176 }

(***************************************************************************)
(* Property (entry/properties/property.rs)                                 *)
(***************************************************************************)
NIL == 0
I16_1 == 2
I16_2 == 11
I32_1 == 3
I32_2 == 19
I64 == 20
F32 == 4
F64 == 5
PROP_STRING == 8
PROP_IMAGE == 9

NoValue == [kind |-> "none"]

\* i16::from_le_bytes
I16FromLe(b) == IF b[2] < 128 THEN b[1] + 256 * b[2] ELSE b[1] + 256 * b[2] - 65536

\* get_i16_le, by buf_try_get_impl!
GetI16Le(data, pos) ==
    Pick({ [res |-> "ok", pos |-> r.pos, val |-> I16FromLe(r.bytes)] :
           r \in { AccRead(data, pos, 2) } })

\* num as i64, as the 8 little-endian bytes of the i64
I8AsI64(num) == IF num < 0 THEN << num + 256, 255, 255, 255, 255, 255, 255, 255 >>
                ELSE << num, 0, 0, 0, 0, 0, 0, 0 >>

\* get_var_i64_le: one i8, and an i64 after it when the i8 is i8::MIN
GetVarI64Le(data, pos) ==
    Pick({ IF num.res # "ok" THEN [res |-> "panic", pos |-> num.pos, val |-> Zeros(8)]
           ELSE IF num.val = -128 THEN GetU64Le(data, num.pos)
           ELSE [res |-> "ok", pos |-> num.pos, val |-> I8AsI64(num.val)] :
           num \in { GetI8(data, pos) } })

\* get_var_f32_le: one i8, taken as f32 (kept as the integer it is), and
\* when the i8 is i8::MIN the f32 of the 4 bytes after it (kept as its bits)
GetVarF32Le(data, pos) ==
    Pick({ IF num.res # "ok" THEN [res |-> "panic", pos |-> num.pos, val |-> [int |-> 0]]
           ELSE IF num.val = -128
                THEN Pick({ [res |-> "ok", pos |-> b.pos, val |-> [bits |-> b.val]] :
                            b \in { GetU32Le(data, num.pos) } })
           ELSE [res |-> "ok", pos |-> num.pos, val |-> [int |-> num.val]] :
           num \in { GetI8(data, pos) } })

\* what the value's parse gives when it panics or fails
PropPanic(pos, ns) == [res |-> "panic", pos |-> pos, value |-> NoValue, ns |-> ns]
PropValueOk(pos, kind, val, ns) ==
    [res |-> "ok", pos |-> pos, value |-> [kind |-> kind, val |-> val], ns |-> ns]

\* (image_size + current) as u64 as a position: a sum from 2^63 on is a
\* position past the end of every data, given as len + 1
ImageEnd(image_size, current, len) ==
    IF image_size + current < 0 THEN len + 1 ELSE image_size + current

\* the kind::IMAGE arm: image_size, the image at current under
\* opt.clone_with(current), an Err returned by `?`, and the seek to
\* image_size + current, a sum that for a negative image_size of magnitude
\* up to current passes 2^64 (a panic with overflow checks, the wrapped sum
\* without)
PropImage(cipher, data, pos, parent_offset, overflow_checks) ==
    Pick({ Pick({
        IF image.res = "panic" THEN PropPanic(image.pos, << image.n >>)
        ELSE IF image.res # "ok"
             THEN [res |-> image.res, pos |-> image.pos, value |-> NoValue,
                   ns |-> << image.n >>]
        ELSE IF image_size.val < 0 /\ image_size.val + image_size.pos >= 0 /\ overflow_checks
             THEN PropPanic(image.pos, << image.n >>)
        ELSE PropValueOk(ImageEnd(image_size.val, image_size.pos, Len(data)), "Image",
                         [kind |-> image.kind, offset |-> image.offset,
                          size |-> image_size.val], << image.n >>) :
        image \in { ImageFromAccessor(cipher, data, image_size.pos, parent_offset,
                                      overflow_checks) } }) :
        image_size \in { GetI32Le(data, pos) } })

\* the `_` arm of match kind: panic!("unexpected property kind {kind}")
PropOtherKind(pos, kind) == PropPanic(pos, << >>)

\* let value = match kind { ... }
PropValue(cipher, data, pos, kind, parent_offset, overflow_checks) ==
    IF kind = PROP_IMAGE THEN PropImage(cipher, data, pos, parent_offset, overflow_checks)
    ELSE IF kind = NIL THEN PropValueOk(pos, "Nil", 0, << >>)
    ELSE IF kind = I16_1 \/ kind = I16_2
         THEN Pick({ PropValueOk(v.pos, "Int16", v.val, << >>) : v \in { GetI16Le(data, pos) } })
    ELSE IF kind = I32_1 \/ kind = I32_2
         THEN Pick({ IF v.res # "ok" THEN PropPanic(v.pos, << >>)
                     ELSE PropValueOk(v.pos, "Int32", v.val, << >>) :
                     v \in { GetVarI32Le(data, pos) } })
    ELSE IF kind = I64
         THEN Pick({ IF v.res # "ok" THEN PropPanic(v.pos, << >>)
                     ELSE PropValueOk(v.pos, "Int64", v.val, << >>) :
                     v \in { GetVarI64Le(data, pos) } })
    ELSE IF kind = F32
         THEN Pick({ IF v.res # "ok" THEN PropPanic(v.pos, << >>)
                     ELSE PropValueOk(v.pos, "Float32", v.val, << >>) :
                     v \in { GetVarF32Le(data, pos) } })
    ELSE IF kind = F64
         THEN Pick({ PropValueOk(v.pos, "Float64", v.val, << >>) : v \in { GetU64Le(data, pos) } })
    ELSE IF kind = PROP_STRING
         THEN Pick({ IF s.res # "ok" THEN PropPanic(s.pos, << s.n >>)
                     ELSE PropValueOk(s.pos, "String", s.str, << s.n >>) :
                     s \in { TryGetUolString(cipher, data, pos, parent_offset,
                                             overflow_checks) } })
    ELSE PropOtherKind(pos, kind)

\* <Property as TryFromAccessor>::try_from_accessor(opt, accessor): the name
\* by get_uol_string, whose Err is a panic, the kind byte, the value
PropertyFromAccessor(cipher, data, pos, parent_offset, overflow_checks) ==
    Pick({
        IF name.res # "ok"
        THEN [res |-> "panic", pos |-> name.pos, pname |-> << >>, value |-> NoValue,
              ns |-> << name.n >>]
        ELSE Pick({
            IF kind.res # "ok"
            THEN [res |-> "panic", pos |-> kind.pos, pname |-> << >>, value |-> NoValue,
                  ns |-> << name.n >>]
            ELSE Pick({ [res |-> v.res, pos |-> v.pos,
                         pname |-> IF v.res = "ok" THEN name.str ELSE << >>,
                         value |-> v.value, ns |-> << name.n >> \o v.ns] :
                        v \in { PropValue(cipher, data, kind.pos, kind.bytes[1], parent_offset,
                                          overflow_checks) } }) :
            kind \in { CopyToSlice(data, name.pos, 1) } }) :
        name \in { TryGetUolString(cipher, data, pos, parent_offset, overflow_checks) } })

\* Property::try_from_accessor(opt, accessor)
PropertyCall ==
    /\ AccReady /\ opt.set
    /\ \E overflow_checks \in BOOLEAN :
       \E r \in { PropertyFromAccessor(acc.cipher, acc.data, acc.pos, opt.parent_offset,
                                       overflow_checks) } :
       \E cipher \in AccCryptAfterAll(acc.cipher, r.ns) :
         /\ acc' = [acc EXCEPT !.pos = r.pos, !.cipher = cipher]
         /\ ret' = [name |-> "Property::try_from_accessor", from |-> acc.pos, res |-> r.res,
                    pname |-> r.pname, offset |-> acc.pos, value |-> r.value, k |-> Calls + 1]
    /\ UNCHANGED opt

\* the name a inline, under the null cipher and under the MapleTable of IV
\* 1 2 3 4, and as a back-reference to the name stored at 2
NameA == << 0, 255, 203 >>
NameAKeyed == << 0, 255, 59 >>
NameBack == << 1, 2, 0, 0, 0 >>

\* The encoded properties the parser is run on, each after one byte of
\* something else: a name and each of the ten kinds, with one-byte and
\* marked var-ints, fixed-width values whole and cut short, strings inline,
\* back-referenced and with a flag that is none, nested images of sizes
\* inside, past the end and negative, and one the dispatcher refuses; kinds
\* that are none of the ten; names whose flag is neither 0x00 nor 0x01.
PropValues ==
    { << 0 >>, << 2, 52, 18 >>, << 11, 255, 255 >>, << 2, 52 >>, << 2 >>,
      << 3, 7 >>, << 19, 128, 1, 0, 0, 128 >>, << 3, 128, 1, 2 >>, << 3 >>,
      << 20, 249 >>, << 20, 128, 1, 2, 3, 4, 5, 6, 7, 8 >>, << 20, 128, 1, 2, 3 >>,
      << 4, 5 >>, << 4, 128, 0, 0, 128, 63 >>, << 4, 128, 0, 0 >>,
      << 5, 0, 0, 0, 0, 0, 0, 240, 63 >>, << 5, 1, 2, 3 >>,
      << 8, 0, 255, 200 >>, << 8, 1, 2, 0, 0, 0 >>, << 8, 7 >>, << 8, 0, 255, 56 >>,
      << 9, 12, 0, 0, 0, 115, 248, 250, 217, 195, 221, 203, 221, 196, 200, 0, 0, 0, 0 >>,
      << 9, 40, 0, 0, 0, 115, 253, 255, 228, 224 >>,
      << 9, 255, 255, 255, 255, 115, 253, 255, 228, 224 >>,
      << 9, 0, 0, 0, 128, 115, 253, 255, 228, 224 >>,
      << 9, 2, 0, 0, 0, 1, 3, 65 >>,
      << 9, 12, 0, 0, 0, 34, 1, 2 >>, << 9, 4, 0, 0, 0, 115, 253, 236, 196, 195 >>,
      << 9, 12, 0 >>,
      << 1 >>, << 6, 1, 2 >>, << 7 >>, << 10, 0 >>, << 18, 1 >>, << 21, 1 >>, << 255 >>,
      << >> }
PropData ==
    { << 9 >> \o nm \o v : nm \in { NameA, NameAKeyed }, v \in PropValues }
        \cup { << 9 >> \o NameBack \o v :
               v \in { << 0 >>, << 3, 7 >>, << 6 >>, << 8, 1, 2, 0, 0, 0 >> } }
        \cup { << 9, f, 255, 203, 0 >> : f \in { 2, 115, 27, 255 } }
        \cup { << 9 >>, << >> }
PropStarts == { 1 }
PropParents == { 0, 1 }
PropHashes == { 4660 }

(***************************************************************************)
(* The pack container (reader/pack.rs).  File names are ASCII.             *)
(***************************************************************************)
SUPPORTED_VERSION == 2
PACK_BLOCK_SIZE == 1024
KEY_HASH == << 197, 157, 28, 129 >>

\* the sum of a name's character codes from the i-th on
RECURSIVE CharSum(_, _)
CharSum(s, i) == IF i > Len(s) THEN 0 ELSE s[i] + CharSum(s, i + 1)

\* to_ascii_lowercase
ToAsciiLowercase(name) ==
    Tuple([i \in 1..Len(name) |-> IF name[i] >= 65 /\ name[i] <= 90 THEN name[i] + 32
                                  ELSE name[i]])

\* filename.chars().fold(0i32, |acc, c| acc.wrapping_add(c as i32)) % 312 + 30
RandByteSize(filename) == (CharSum(filename, 1) % 312) + 30

\* salt_bytes.iter().step_by(2).zip(rand_bytes).map(|(salt, r)| (r ^ *salt) as char)
SaltStr(salt_bytes, rand_bytes) ==
    Tuple([j \in 1..Min(Len(salt_bytes) \div 2, Len(rand_bytes)) |->
               Xor8(rand_bytes[j], salt_bytes[2 * j - 1])])

\* the UTF-8 bytes of one char
Utf8OfChar(c) ==
    IF c < 128 THEN << c >>
    ELSE IF c < 2048 THEN << 192 + (c \div 64), 128 + (c % 64) >>
    ELSE IF c < 65536
         THEN << 224 + (c \div 4096), 128 + ((c \div 64) % 64), 128 + (c % 64) >>
    ELSE << 240 + (c \div 262144), 128 + ((c \div 4096) % 64), 128 + ((c \div 64) % 64),
            128 + (c % 64) >>

\* String::into_bytes / as_bytes: the UTF-8 bytes of the chars from the i-th on
RECURSIVE Utf8Bytes(_, _)
Utf8Bytes(str, i) ==
    IF i > Len(str) THEN << >> ELSE Utf8OfChar(str[i]) \o Utf8Bytes(str, i + 1)

\* (0..16).map(|i| filename_with_salt[(i % file_name_with_salt_len) as usize] + i):
\* the remainder by a length of 0 panics, and so does a sum above 255 under
\* overflow checks, which wraps without them
SnowCipherKey(fws, overflow_checks) ==
    IF Len(fws) % 256 = 0 THEN [res |-> "panic", key |-> << >>]
    ELSE IF overflow_checks /\ \E i \in 0..15 : fws[(i % (Len(fws) % 256)) + 1] + i > 255
         THEN [res |-> "panic", key |-> << >>]
    ELSE [res |-> "ok",
          key |-> Tuple([j \in 1..16 |->
                             (fws[((j - 1) % (Len(fws) % 256)) + 1] + (j - 1)) % 256])]

\* the fold of the hash check: hash_salt_len + version + entry_count and
\* the salt's u16 pairs from the i-th byte on, wrapping
RECURSIVE SaltSumNone(_, _, _)
SaltSumNone(acc0, salt_bytes, i) == acc0
RECURSIVE SaltSum(_, _, _)
SaltSum(acc0, salt_bytes, i) ==
    IF i > Len(salt_bytes) THEN acc0
    ELSE Pick({ SaltSum(a, salt_bytes, i + 2) :
                a \in { WAdd(acc0, << salt_bytes[i], salt_bytes[i + 1], 0, 0 >>) } })

\* hash_salt_len.wrapping_add(version as i32).wrapping_add(entry_count), folded
HashSum(hash_salt_len, version, entry_count, salt_bytes) ==
    Pick({ SaltSum(a, salt_bytes, 1) :
           a \in { WAdd(WAdd(hash_salt_len, << version, 0, 0, 0 >>), entry_count) } })

\* entry_key: index + (index % 3 + 2) * filename_with_salt[salt_size - 1 -
\* index % salt_size] as u8
EntryKey(fws) ==
    Tuple([j \in 1..16 |->
        ((j - 1) + (((j - 1) % 3) + 2)
                     * fws[(Len(fws) % 256) - 1 - ((j - 1) % (Len(fws) % 256)) + 1]) % 256])

\* wrapping_mul(0x1000193)
MulPrime(w) ==
    Pick({ WAdd(WMulU16(x, 403), << 0, 0, 0, x[1] >>) : x \in { w } })

\* salt_str.chars().fold(KEY_HASH, |kh, x| (kh ^ x as u32).wrapping_mul(0x1000193))
RECURSIVE KeyHashFold(_, _, _)
KeyHashFold(kh, str, i) ==
    IF i > Len(str) THEN kh
    ELSE Pick({ KeyHashFold(k, str, i + 1) :
                k \in { MulPrime(WXor(kh, << str[i], 0, 0, 0 >>)) } })

\* a u32 divided by 10: the quotient and the remainder
Div10(w) ==
    Pick({ Pick({ Pick({ [q |-> << c1 \div 10, c2 \div 10, c3 \div 10, w[4] \div 10 >>,
                          r |-> c1 % 10] :
                        c1 \in { (c2 % 10) * 256 + w[1] } }) :
                 c2 \in { (c3 % 10) * 256 + w[2] } }) :
           c3 \in { (w[4] % 10) * 256 + w[3] } })

\* kh.to_string().chars().map(|x| (x as u8).wrapping_sub(b'0'))
RECURSIVE KhDigits(_)
KhDigits(kh) ==
    Pick({ IF d.q = Zero32 THEN << d.r >> ELSE Append(KhDigits(d.q), d.r) :
           d \in { Div10(kh) } })

\* the Snow2 state of a key, new
PackSnow(key) == Snow2Fresh(key, ZeroIV)

NoPack == [entry_pos |-> 0, entry_count |-> Zero32, entry_key |-> << >>,
           image_key_salt |-> << >>]

\* what PackFile::new returns, with the header fields it decrypted
PackRet(res, pos, hash0, version, entry_count, pack) ==
    [res |-> res, pos |-> pos, hash |-> hash0, version |-> version,
     entry_count |-> entry_count, pack |-> pack]

\* the checks of PackFile::new on the 12 decrypted bytes temp, and the
\* PackFile built when they pass
PackChecks(temp, pos, rpos, hash_salt_len, salt_bytes, filename, salt_str, fws) ==
    Pick({ IF version # SUPPORTED_VERSION
           THEN PackRet("InvalidVersion", rpos, hash0, version, entry_count, NoPack)
           ELSE IF HashSum(hash_salt_len, version, entry_count, salt_bytes) # hash0
           THEN PackRet("BrokenFile", rpos, hash0, version, entry_count, NoPack)
           ELSE PackRet("ok", rpos, hash0, version, entry_count,
                        [entry_pos |-> pos + 9 + ((3 * CharSum(filename, 1)) % 212) + 33,
                         entry_count |-> entry_count,
                         entry_key |-> EntryKey(fws),
                         image_key_salt |-> KhDigits(KeyHashFold(KEY_HASH, salt_str, 1))]) :
           hash0 \in { SubSeq(temp, 1, 4) }, version \in { temp[5] },
           entry_count \in { SubSeq(temp, 6, 9) } })

PackFail(res, pos) == PackRet(res, pos, Zero32, 0, Zero32, NoPack)

\* PackFile::new(path) on a file of the bytes data, name the file name
PackFileNew(name, data, overflow_checks) ==
    Pick({ Pick({
        IF rand_bytes.res # "ok" THEN PackFail("panic", rand_bytes.pos)
        ELSE Pick({ Pick({
            IF salt_bytes.res # "ok" THEN PackFail("panic", salt_bytes.pos)
            ELSE Pick({ Pick({ Pick({
                IF key.res # "ok" THEN PackFail("panic", salt_bytes.pos)
                ELSE Pick({
                    IF rd0.res # "ok" THEN PackFail(rd0.res, rd0.pos)
                    ELSE PackChecks(rd0.out, salt_bytes.pos, rd0.pos, hash_salt_len.val,
                                    salt_bytes.bytes, filename, salt_str, fws) :
                    rd0 \in { ReadCall([data |-> data, pos |-> salt_bytes.pos,
                                        buf |-> << >>, z |-> PackSnow(key.key)], 12) } }) :
                key \in { SnowCipherKey(fws, overflow_checks) } }) :
                fws \in { filename \o Utf8Bytes(salt_str, 1) } }) :
                salt_str \in { SaltStr(salt_bytes.bytes, rand_bytes.bytes) } }) :
            salt_bytes \in { CopyToSlice(data, hash_salt_len.pos,
                                         2 * Xor8(hash_salt_len.val[1],
                                                  rand_bytes.bytes[1])) } }) :
            hash_salt_len \in { GetU32Le(data, rand_bytes.pos) } }) :
        rand_bytes \in { CopyToSlice(data, 0, RandByteSize(filename)) } }) :
        filename \in { ToAsciiLowercase(name) } })

\* PackFile::new: the accessor is the one new builds over the file
PackNew(name, data) ==
    /\ ~acc.open /\ ret = NoRet
    /\ \E overflow_checks \in BOOLEAN :
       \E r \in { PackFileNew(name, data, overflow_checks) } :
         /\ acc' = [open |-> TRUE, data |-> data, pos |-> r.pos, cipher |-> NoneCipher]
         /\ ret' = [name |-> "PackFile::new", from |-> 0, res |-> r.res, file |-> name,
                    hash |-> r.hash, version |-> r.version, entry_count |-> r.entry_count,
                    pack |-> r.pack, k |-> 1]
    /\ UNCHANGED opt

\* image_key: i + entry_name[i % entry_name_len] * (salt[i % salt_len] % 2
\* + entry_key[(salt[(i + 2) % salt_len] + i) % 16] + (salt[(i + 1) %
\* salt_len] + i) % 5) as u8
ImageKey(entry_name, entry_key, salt) ==
    Tuple([j \in 1..16 |->
        ((j - 1) + entry_name[((j - 1) % Len(entry_name)) + 1]
                   * ((salt[((j - 1) % Len(salt)) + 1] % 2)
                      + entry_key[((salt[((j + 1) % Len(salt)) + 1] + (j - 1)) % 16) + 1]
                      + ((salt[(j % Len(salt)) + 1] + (j - 1)) % 5))) % 256])

\* the PackEntry read from the bytes temp behind a name length of n units:
\* the name (c.unwrap() panics on an unpaired surrogate), seven i32, the
\* key; the image key's i % entry_name_len panics on an empty name
EntryOf(temp, n, salt) ==
    Pick({ IF name.err \/ name.str = << >> THEN [res |-> "panic"]
           ELSE [res |-> "ok",
                 name |-> name.str,
                 checksum |-> SubSeq(temp, 2 * n + 1, 2 * n + 4),
                 flags |-> SubSeq(temp, 2 * n + 5, 2 * n + 8),
                 offset |-> WMulU16(SubSeq(temp, 2 * n + 9, 2 * n + 12), PACK_BLOCK_SIZE),
                 size |-> SubSeq(temp, 2 * n + 13, 2 * n + 16),
                 size_aligned |-> SubSeq(temp, 2 * n + 17, 2 * n + 20),
                 unk1 |-> SubSeq(temp, 2 * n + 21, 2 * n + 24),
                 unk2 |-> SubSeq(temp, 2 * n + 25, 2 * n + 28),
                 key |-> ImageKey(Utf8Bytes(name.str, 1),
                                  SubSeq(temp, 2 * n + 29, 2 * n + 44), salt)] :
           name \in { DecodeUtf16(Units(SubSeq(temp, 1, 2 * n)), 1) } })

\* the reader::Snow2 after a read
ReaderAfter(r, c) == [data |-> r.data, pos |-> c.pos, buf |-> c.buf, z |-> c.z]

\* vec![0; (entry_name_len as usize * 2) + 44]: the bytes to read, or a
\* panic (the overflow check on a negative length, or a length no Vec can
\* have); a negative length from -22 on wraps to 44 + 2 * entry_name_len;
\* 65536 stands for every length the file cannot hold
TempSize(entry_name_len, overflow_checks) ==
    IF entry_name_len < 0
    THEN IF overflow_checks \/ entry_name_len < -22 THEN -1 ELSE 44 + 2 * entry_name_len
    ELSE IF entry_name_len > 32000 THEN 65536 ELSE 2 * entry_name_len + 44

PackListRet(res, pos, offset, entries) ==
    [res |-> res, pos |-> pos, offset |-> offset, entries |-> entries]

\* for _ in 0..file.entry_count, left iterations to go
RECURSIVE PackLoop(_, _, _, _, _, _)
PackLoop(r, left, offset, entries, salt, overflow_checks) ==
    IF left = 0 THEN PackListRet("ok", r.pos, offset, entries)
    ELSE Pick({
        IF c4.res # "ok" THEN PackListRet(c4.res, c4.pos, offset, << >>)
        ELSE Pick({
            IF size < 0 THEN PackListRet("panic", c4.pos, offset, << >>)
            ELSE Pick({
                IF ct.res # "ok" THEN PackListRet(ct.res, ct.pos, offset, << >>)
                ELSE IF I32FromLe(c4.out) < 0 THEN PackListRet("panic", ct.pos, offset, << >>)
                ELSE Pick({
                    IF entry.res # "ok" THEN PackListRet("panic", ct.pos, offset, << >>)
                    ELSE PackLoop(ReaderAfter(r, ct), left - 1, offset + size + 4,
                                  Append(entries, entry), salt, overflow_checks) :
                    entry \in { EntryOf(ct.out, I32FromLe(c4.out), salt) } }) :
                ct \in { ReadCall(ReaderAfter(r, c4), size) } }) :
            size \in { TempSize(I32FromLe(c4.out), overflow_checks) } }) :
        c4 \in { ReadCall(r, 4) } })

\* x.offset += image_data_off as i32: the sum passing i32::MAX panics under
\* overflow checks and wraps without them
AddOffset(offset, n, overflow_checks) ==
    Pick({ IF overflow_checks /\ offset[4] < 128 /\ sum[4] >= 128
           THEN [res |-> "panic", val |-> sum]
           ELSE [res |-> "ok", val |-> sum] :
           sum \in { WAdd(offset, ToWord(n)) } })

\* (offset + BLOCK_SIZE - 1) & !(BLOCK_SIZE - 1)
ImageDataOff(offset) ==
    ((offset + PACK_BLOCK_SIZE - 1) \div PACK_BLOCK_SIZE) * PACK_BLOCK_SIZE

\* entries.iter_mut().for_each(|x| x.offset += image_data_off as i32)
ShiftOffsets(entries, n, overflow_checks) ==
    IF \E i \in 1..Len(entries) : AddOffset(entries[i].offset, n, overflow_checks).res # "ok"
    THEN [res |-> "panic", entries |-> << >>]
    ELSE [res |-> "ok",
          entries |-> Tuple([i \in 1..Len(entries) |->
              [entries[i] EXCEPT !.offset = AddOffset(@, n, overflow_checks).val]])]

\* PackEntries::try_from(file) on the file's bytes data: Vec::with_capacity
\* of a negative count taken as usize panics
PackEntriesFrom(pack, data, overflow_checks) ==
    IF pack.entry_count[4] >= 128 THEN PackListRet("panic", pack.entry_pos, 0, << >>)
    ELSE Pick({
        IF l.res # "ok" THEN l
        ELSE Pick({ PackListRet(sh.res, l.pos, l.offset, sh.entries) :
                    sh \in { ShiftOffsets(l.entries, ImageDataOff(l.offset),
                                          overflow_checks) } }) :
        l \in { PackLoop([data |-> data, pos |-> pack.entry_pos, buf |-> << >>,
                          z |-> PackSnow(pack.entry_key)],
                         WordNat(pack.entry_count), pack.entry_pos, << >>,
                         pack.image_key_salt, overflow_checks) } })

\* file.entries(): a new accessor over the file, seeked to entry_pos
PackEntriesCall ==
    /\ ret # NoRet /\ acc.open
    /\ ret.name = "PackFile::new" /\ ret.res = "ok"
    /\ WordFits(ret.pack.entry_count, MaxEntries) \/ ret.pack.entry_count[4] >= 128
    /\ \E overflow_checks \in BOOLEAN :
       \E r \in { PackEntriesFrom(ret.pack, acc.data, overflow_checks) } :
         /\ acc' = [acc EXCEPT !.pos = r.pos]
         /\ ret' = [name |-> "PackEntries::try_from", from |-> ret.pack.entry_pos,
                    res |-> r.res, entries |-> r.entries, offset |-> r.offset,
                    pack |-> ret.pack, k |-> 2]
    /\ UNCHANGED opt

\* The pack files of the model, written as a packer writes them: rand
\* bytes, hash_salt_len, the salt, the header fields encrypted with the key
\* of the name and the salt, zeros up to entry_pos, and the entry table
\* encrypted with the entry key.
PackNames == { << 104, 104, 104 >>, << 72, 104, 104 >> }

\* rand bytes that start with r0, for a name of the sum 312
PackRand(r0) == Tuple([i \in 1..30 |-> IF i = 1 THEN r0 ELSE (7 * i) % 256])

\* first rand byte, hash_salt_len, salt: 2 pairs behind a length of 4; no
\* salt; 2 pairs of high bytes behind a length whose sum wraps; 2 pairs
\* behind a length above 255
PackSalts ==
    { [r0 |-> 6, hsl |-> << 4, 0, 0, 0 >>, salt |-> << 1, 0, 2, 0 >>],
      [r0 |-> 0, hsl |-> << 0, 0, 0, 0 >>, salt |-> << >>],
      [r0 |-> 0, hsl |-> << 2, 255, 255, 127 >>, salt |-> << 255, 255, 1, 128 >>],
      [r0 |-> 0, hsl |-> << 2, 1, 0, 0 >>, salt |-> << 1, 0, 2, 0 >>] }
PackVersions == { 2, 3 }
PackCounts == { << 0, 0, 0, 0 >>, << 1, 0, 0, 0 >>, << 255, 255, 255, 255 >> }
PackHashDeltas == { 0, 1 }

\* filename + salt_str, as bytes
NameWithSalt(name, c) ==
    ToAsciiLowercase(name) \o Utf8Bytes(SaltStr(c.salt, PackRand(c.r0)), 1)

\* the bytes up to the end of the encrypted header
PackHeaderBytes(name, c, version, entry_count, delta) ==
    PackRand(c.r0) \o c.hsl \o c.salt
        \o Snow2Crypt(PackSnow(SnowCipherKey(NameWithSalt(name, c), FALSE).key),
                      WAdd(HashSum(c.hsl, version, entry_count, c.salt), ToWord(delta))
                          \o << version >> \o entry_count \o << 0, 0, 0 >>,
                      TRUE).dst

\* an entry as stored: the name's length and UTF-16 units, checksum, flags,
\* the raw offset, size, size_aligned, unk1, unk2, the key
EntryBytes(e) ==
    e.len \o e.units \o Zero32 \o Zero32 \o e.raw \o << 9, 0, 0, 0 >> \o << 12, 0, 0, 0 >>
          \o Zero32 \o Zero32 \o Tuple([i \in 1..16 |-> 3 * i])

RECURSIVE TableBytes(_, _)
TableBytes(es, i) == IF i > Len(es) THEN << >> ELSE EntryBytes(es[i]) \o TableBytes(es, i + 1)

\* entries named a and ab with raw offsets 0 and 5; raw offsets 0x1FFFFF,
\* 0x200000 and -1; an empty name; a name that is one unpaired surrogate;
\* a name length of -1
EntryA == [len |-> << 1, 0, 0, 0 >>, units |-> << 97, 0 >>, raw |-> << 0, 0, 0, 0 >>]
EntryAb == [len |-> << 2, 0, 0, 0 >>, units |-> << 97, 0, 98, 0 >>, raw |-> << 5, 0, 0, 0 >>]
EntryFar == [EntryAb EXCEPT !.raw = << 255, 255, 31, 0 >>]
EntryWrap == [EntryAb EXCEPT !.raw = << 0, 0, 32, 0 >>]
EntryBefore == [EntryAb EXCEPT !.raw = << 255, 255, 255, 255 >>]
EntryNoName == [len |-> << 0, 0, 0, 0 >>, units |-> << >>, raw |-> << 0, 0, 0, 0 >>]
EntrySurrogate == [EntryA EXCEPT !.units = << 0, 216 >>]
EntryNegative == [EntryA EXCEPT !.len = << 255, 255, 255, 255 >>]
PackTables ==
    { << >>, << EntryA >>, << EntryAb >>, << EntryA, EntryAb >>, << EntryAb, EntryA >>,
      << EntryFar >>, << EntryA, EntryFar >>, << EntryWrap >>, << EntryBefore >>,
      << EntryNoName >>, << EntrySurrogate >>, << EntryNegative >> }

\* the table encrypted as one stream, padded to whole words
PackTableBytes(name, c, es) ==
    Pick({ Snow2Crypt(PackSnow(EntryKey(NameWithSalt(name, c))),
                      plain \o Zeros(align_size(Len(plain)) - Len(plain)), TRUE).dst :
           plain \in { TableBytes(es, 1) } })

\* a file with the table es, of a count that is the table's length or given
PackFileBytes(name, c, entry_count, es) ==
    Pick({ header \o Zeros(118) \o PackTableBytes(name, c, es) \o << 0, 0, 0 >> :
           header \in { PackHeaderBytes(name, c, 2, entry_count, 0) } })

PackSalt1 == [r0 |-> 6, hsl |-> << 4, 0, 0, 0 >>, salt |-> << 1, 0, 2, 0 >>]

PackFiles ==
    { PackHeaderBytes(<< 104, 104, 104 >>, c, version, entry_count, delta) :
        c \in PackSalts, version \in PackVersions, entry_count \in PackCounts,
        delta \in PackHashDeltas }
    \cup { PackFileBytes(<< 104, 104, 104 >>, PackSalt1, ToWord(Len(es)), es) :
             es \in PackTables }
    \cup { PackFileBytes(<< 104, 104, 104 >>, PackSalt1, ToWord(2), << EntryA >>),
           SubSeq(PackHeaderBytes(<< 104, 104, 104 >>, PackSalt1, 2, Zero32, 0), 1, 45),
           PackRand(0) \o << 3 >> }

(***************************************************************************)
(* Properties (entry/properties/property.rs) and Canvas                    *)
(* (entry/canvas/canvas.rs)                                                *)
(***************************************************************************)
MaxI32 == -(MinI32 + 1)
ZLIB_HEADER_BYTE == 40056

\* for _ in 0..count { properties.push(Property::try_from_accessor(..)?) }
RECURSIVE PropLoop(_, _, _, _, _, _, _, _)
PropLoop(cipher, data, pos, parent_offset, overflow_checks, left, properties, ns) ==
    IF left = 0
    THEN [res |-> "ok", pos |-> pos, some |-> TRUE, properties |-> properties, ns |-> ns]
    ELSE Pick({ IF p.res # "ok"
                THEN [res |-> p.res, pos |-> p.pos, some |-> FALSE, properties |-> << >>,
                      ns |-> ns \o p.ns]
                ELSE PropLoop(cipher, data, p.pos, parent_offset, overflow_checks, left - 1,
                              Append(properties, [name |-> p.pname, value |-> p.value]),
                              ns \o p.ns) :
                p \in { PropertyFromAccessor(cipher, data, pos, parent_offset,
                                             overflow_checks) } })

\* <Properties as TryFromAccessor>::try_from_accessor: get_properties_count
\* is advance(2) and get_var_i32_le() as usize, and Vec::with_capacity of a
\* negative count taken as usize panics
PropertiesFromAccessor(cipher, data, pos, parent_offset, overflow_checks) ==
    Pick({ IF count.res # "ok" \/ count.val < 0
           THEN [res |-> "panic", pos |-> count.pos, some |-> FALSE, properties |-> << >>,
                 ns |-> << >>]
           ELSE PropLoop(cipher, data, count.pos, parent_offset, overflow_checks, count.val,
                         << >>, << >>) :
           count \in { GetVarI32Le(data, pos + 2) } })

\* Properties::builtin: None unless the high byte of the u16 is 1
PropertiesBuiltin(cipher, data, pos, parent_offset, overflow_checks) ==
    Pick({ IF flag.val \div 256 # 1
           THEN [res |-> "ok", pos |-> flag.pos, some |-> FALSE, properties |-> << >>,
                 ns |-> << >>]
           ELSE PropertiesFromAccessor(cipher, data, flag.pos, parent_offset, overflow_checks) :
           flag \in { GetU16Le(data, pos) } })

\* CanvasFormat::from(value)
CanvasFormatOf(value) ==
    IF value = 1 THEN "BGRA4444"
    ELSE IF value = 2 THEN "BGRA8888"
    ELSE IF value = 3 THEN "Gray"
    ELSE IF value = 257 THEN "ARGB1555"
    ELSE IF value = 513 THEN "RGB565"
    ELSE IF value = 517 THEN "RGB565Thumb"
    ELSE IF value = 1026 THEN "DXT3"
    ELSE IF value = 2050 THEN "DXT5"
    ELSE IF value = 2304 THEN "ALPHA8"
    ELSE IF value = 2562 THEN "RGBA1010102"
    ELSE IF value = 4097 THEN "DXT1"
    ELSE IF value = 4098 THEN "BC7"
    ELSE IF value = 4100 THEN "RGBAFloat"
    ELSE "Unknown"

\* a / b of i32, which rounds toward zero
DivI32(a, b) == IF a >= 0 THEN a \div b ELSE -((-a) \div b)

\* CanvasFormat::data_size(width, height), for widths and heights of
\* magnitude up to 2^12, where no product leaves the i32
FormatDataSize(format, width, height) ==
    IF format \in { "BGRA4444", "ARGB1555", "RGB565" } THEN width * height * 2
    ELSE IF format \in { "BGRA8888", "RGBA1010102" } THEN width * height * 4
    ELSE IF format \in { "DXT3", "DXT5", "Gray", "BC7" }
         THEN DivI32(width + 3, 4) * DivI32(height + 3, 4) * 16
    ELSE IF format = "DXT1" THEN DivI32(width + 3, 4) * DivI32(height + 3, 4) * 8
    ELSE IF format = "ALPHA8" THEN width * height
    ELSE IF format = "RGBAFloat" THEN width * height * 16
    ELSE IF format = "RGB565Thumb" THEN DivI32(width * height, 128)
    ELSE 0

\* a + b of i32, b a u8: an overflow panics under overflow checks and wraps
\* without them
AddU8I32(a, b, overflow_checks) ==
    IF a > MaxI32 - b
    THEN IF overflow_checks THEN [res |-> "panic", val |-> 0]
         ELSE [res |-> "ok", val |-> (a + MinI32) + (b + MinI32)]
    ELSE [res |-> "ok", val |-> a + b]

\* a - 1 of i32
SubOneI32(a, overflow_checks) ==
    IF a = MinI32
    THEN IF overflow_checks THEN [res |-> "panic", val |-> 0]
         ELSE [res |-> "ok", val |-> MaxI32]
    ELSE [res |-> "ok", val |-> a - 1]

NoAttr == [property |-> [some |-> FALSE, properties |-> << >>], x |-> 0, y |-> 0,
           format |-> "Unknown", data_size |-> 0, field |-> 0]
AttrFail(res, pos, ns) == [res |-> res, pos |-> pos, attr |-> NoAttr, ns |-> ns]

\* (the size field read by the variable-length codec)
CanvasSizeFieldVar(data, pos) == GetVarI32Le(data, pos)

\* the size field: accessor.get_i32_le()
CanvasSizeField(data, pos) == GetI32Le(data, pos)

\* the tail of CanvasAttribute::try_from_accessor: advance(4), data_size =
\* (get_i32_le() - 1) as usize, advance(1); a data_size below zero stands
\* for the usize 2^64 + data_size
CanvasAttrTail(data, pos, property, size, format, ns, overflow_checks) ==
    Pick({ IF field.res # "ok" THEN AttrFail("panic", field.pos, ns)
           ELSE Pick({
               IF data_size.res # "ok" THEN AttrFail("panic", field.pos, ns)
               ELSE [res |-> "ok", pos |-> field.pos + 1,
                     attr |-> [property |-> property, x |-> size.x, y |-> size.y,
                               format |-> format, data_size |-> data_size.val,
                               field |-> pos + 4],
                     ns |-> ns] :
               data_size \in { SubOneI32(field.val, overflow_checks) } }) :
           field \in { CanvasSizeField(data, pos + 4) } })

\* Vector2D::try_from_accessor: two get_var_i32_le
Vector2DFromAccessor(data, pos) ==
    Pick({ IF x.res # "ok" THEN [res |-> "panic", pos |-> x.pos, x |-> 0, y |-> 0]
           ELSE Pick({ [res |-> IF y.res = "ok" THEN "ok" ELSE "panic", pos |-> y.pos,
                        x |-> x.val, y |-> IF y.res = "ok" THEN y.val ELSE 0] :
                       y \in { GetVarI32Le(data, x.pos) } }) :
           x \in { GetVarI32Le(data, pos) } })

\* the format of CanvasAttribute::try_from_accessor:
\* CanvasFormat::from(get_var_i32_le() + get_u8() as i32)
CanvasFormatFrom(data, pos, overflow_checks) ==
    Pick({ IF v.res # "ok" THEN [res |-> "panic", pos |-> v.pos, format |-> "Unknown"]
           ELSE Pick({
               IF b.res # "ok" THEN [res |-> "panic", pos |-> b.pos, format |-> "Unknown"]
               ELSE Pick({
                   IF sum.res # "ok" THEN [res |-> "panic", pos |-> b.pos, format |-> "Unknown"]
                   ELSE IF CanvasFormatOf(sum.val) = "Unknown"
                        THEN [res |-> "UnexpectedData", pos |-> b.pos, format |-> "Unknown"]
                   ELSE [res |-> "ok", pos |-> b.pos, format |-> CanvasFormatOf(sum.val)] :
                   sum \in { AddU8I32(v.val, b.bytes[1], overflow_checks) } }) :
               b \in { CopyToSlice(data, v.pos, 1) } }) :
           v \in { GetVarI32Le(data, pos) } })

\* CanvasAttribute::try_from_accessor(opt, accessor)
CanvasAttributeFromAccessor(cipher, data, pos, parent_offset, overflow_checks) ==
    Pick({ IF property.res # "ok" THEN AttrFail(property.res, property.pos, property.ns)
           ELSE Pick({
               IF size.res # "ok" THEN AttrFail("panic", size.pos, property.ns)
               ELSE Pick({
                   IF format.res # "ok" THEN AttrFail(format.res, format.pos, property.ns)
                   ELSE CanvasAttrTail(data, format.pos,
                                       [some |-> property.some,
                                        properties |-> property.properties],
                                       size, format.format, property.ns, overflow_checks) :
                   format \in { CanvasFormatFrom(data, size.pos, overflow_checks) } }) :
               size \in { Vector2DFromAccessor(data, property.pos) } }) :
           property \in { PropertiesBuiltin(cipher, data, pos, parent_offset,
                                            overflow_checks) } })

\* CanvasAttribute::try_from_accessor(opt, accessor)
CanvasAttributeCall ==
    /\ acc.open /\ opt.set /\ ret = NoRet
    /\ \E overflow_checks \in BOOLEAN :
       \E r \in { CanvasAttributeFromAccessor(acc.cipher, acc.data, acc.pos, opt.parent_offset,
                                              overflow_checks) } :
       \E cipher \in AccCryptAfterAll(acc.cipher, r.ns) :
         /\ acc' = [acc EXCEPT !.pos = r.pos, !.cipher = cipher]
         /\ ret' = [name |-> "CanvasAttribute::try_from_accessor", from |-> acc.pos,
                    res |-> r.res, attr |-> r.attr, k |-> 1]
    /\ UNCHANGED opt

\* accessor.remaining(): len - pos when len > 0, and len otherwise; a pos
\* past the end takes the difference below zero, which panics under
\* overflow checks and wraps without them: val is then the difference and
\* the usize is 2^64 + val
remaining(data, pos, overflow_checks) ==
    IF Len(data) > 0
    THEN IF pos > Len(data) /\ overflow_checks
         THEN [res |-> "panic", val |-> 0, wrapped |-> FALSE]
         ELSE [res |-> "ok", val |-> Len(data) - pos, wrapped |-> pos > Len(data)]
    ELSE [res |-> "ok", val |-> Len(data), wrapped |-> FALSE]

\* try_seek(SeekFrom::Current(n)): pos.checked_add_signed(n), an Err of
\* InvalidInput when the sum is below zero
TrySeekCurrent(pos, n) ==
    IF pos + n < 0 THEN [res |-> "Io", pos |-> pos] ELSE [res |-> "ok", pos |-> pos + n]

\* has_remaining(): remaining() > 0
has_remaining(data, pos, overflow_checks) ==
    Pick({ [res |-> r.res, val |-> r.res = "ok" /\ (r.wrapped \/ r.val > 0)] :
           r \in { remaining(data, pos, overflow_checks) } })

\* while accessor.has_remaining() { size = get_i32_le() as usize;
\* de_data.resize(off + size, 0); decrypt_to_slice(&mut de_data[off..]) }:
\* a negative size is a usize no Vec can hold, and a size above what is
\* left fails in copy_to_slice
RECURSIVE ChunkLoop(_, _, _, _, _, _)
ChunkLoop(cipher, data, pos, overflow_checks, de_data, ns) ==
    Pick({
        IF more.res # "ok" THEN [res |-> "panic", pos |-> pos, data |-> << >>, ns |-> ns]
        ELSE IF ~more.val THEN [res |-> "ok", pos |-> pos, data |-> de_data, ns |-> ns]
        ELSE Pick({
            IF size.val < 0 THEN [res |-> "panic", pos |-> size.pos, data |-> << >>, ns |-> ns]
            ELSE Pick({
                IF chunk.res # "ok"
                THEN [res |-> "panic", pos |-> chunk.pos, data |-> << >>, ns |-> ns]
                ELSE ChunkLoop(cipher, data, chunk.pos, overflow_checks,
                               de_data \o AccCrypt(cipher, chunk.bytes),
                               Append(ns, size.val)) :
                chunk \in { CopyToVec(data, size.pos, ToWord(size.val)) } }) :
            size \in { GetI32Le(data, pos) } }) :
        more \in { has_remaining(data, pos, overflow_checks) } })

\* the data of Canvas::try_from_accessor after its attribute: the flag read
\* and the cursor put back by 2, then the chunks, or data_size bytes when
\* the flag is the zlib header
CanvasData(cipher, data, pos, data_size, overflow_checks) ==
    Pick({ Pick({
        IF back.res # "ok" THEN [res |-> "Io", pos |-> flag.pos, data |-> << >>, ns |-> << >>]
        ELSE IF flag.val # ZLIB_HEADER_BYTE
             THEN ChunkLoop(cipher, data, back.pos, overflow_checks, << >>, << >>)
        ELSE IF data_size < 0
             THEN [res |-> "panic", pos |-> back.pos, data |-> << >>, ns |-> << >>]
        ELSE Pick({ [res |-> c.res, pos |-> c.pos,
                     data |-> IF c.res = "ok" THEN c.bytes ELSE << >>, ns |-> << >>] :
                    c \in { CopyToVec(data, back.pos, ToWord(data_size)) } }) :
        back \in { TrySeekCurrent(flag.pos, -2) } }) :
        flag \in { GetU16Le(data, pos) } })

\* what the ZlibDecoder loop and the check of de_size may give for a
\* raw_data_size: nothing is read for a size of 0
InflateOutcomes(raw_data_size) ==
    IF raw_data_size = 0 THEN { "ok" } ELSE { "ok", "BrokenFile", "Io" }

\* Canvas::try_from_accessor up to the decoder: the attribute and the data;
\* a raw_data_size below zero is a usize no Vec can hold
CanvasFromAccessor(cipher, data, pos, parent_offset, overflow_checks) ==
    Pick({
        IF a.res # "ok"
        THEN [res |-> a.res, pos |-> a.pos, attr |-> a.attr, data |-> << >>, ns |-> a.ns,
              payload |-> a.pos, raw_data_size |-> 0]
        ELSE Pick({
            IF d.res # "ok"
            THEN [res |-> d.res, pos |-> d.pos, attr |-> a.attr, data |-> << >>,
                  ns |-> a.ns \o d.ns, payload |-> a.pos, raw_data_size |-> 0]
            ELSE Pick({ [res |-> IF raw < 0 THEN "panic" ELSE "ok", pos |-> d.pos,
                         attr |-> a.attr, data |-> d.data, ns |-> a.ns \o d.ns,
                         payload |-> a.pos, raw_data_size |-> raw] :
                        raw \in { FormatDataSize(a.attr.format, a.attr.x, a.attr.y) } }) :
            d \in { CanvasData(cipher, data, a.pos, a.attr.data_size, overflow_checks) } }) :
        a \in { CanvasAttributeFromAccessor(cipher, data, pos, parent_offset,
                                            overflow_checks) } })

\* Canvas::try_from_accessor(opt, accessor): zlib is the flate2 crate's, and
\* each result its decoder may give is one outcome of the call
CanvasCall ==
    /\ acc.open /\ opt.set /\ ret = NoRet
    /\ \E overflow_checks \in BOOLEAN :
       \E r \in { CanvasFromAccessor(acc.cipher, acc.data, acc.pos, opt.parent_offset,
                                     overflow_checks) } :
       \E cipher \in AccCryptAfterAll(acc.cipher, r.ns) :
       \E z \in IF r.res = "ok" THEN InflateOutcomes(r.raw_data_size) ELSE { r.res } :
         /\ acc' = [acc EXCEPT !.pos = r.pos, !.cipher = cipher]
         /\ ret' = [name |-> "Canvas::try_from_accessor", from |-> acc.pos, res |-> z,
                    attr |-> r.attr, payload |-> r.payload, data |-> r.data, k |-> 1]
    /\ UNCHANGED opt

\* the canvas heads of the model: the builtin flag (0 0 for no properties,
\* 0 1 with an empty list, and with the property a = 7), width and height,
\* the format as a var-int and a byte, and 4 bytes
CanvasHeads ==
    { << 0, 0, 2, 1, 1, 0, 0, 0, 0, 0 >>, << 0, 0, 4, 4, 2, 0, 9, 9, 9, 9 >>,
      << 0, 0, 1, 1, 128, 2, 4, 0, 0, 0, 0, 0, 0, 0 >>,
      << 0, 0, 0, 5, 1, 2, 0, 0, 0, 0 >>,  << 0, 0, 255, 3, 1, 0, 0, 0, 0, 0 >>,
      << 0, 1, 0, 0, 0, 2, 1, 1, 0, 0, 0, 0, 0 >>,
      << 0, 1, 0, 0, 1, 0, 255, 203, 3, 7, 2, 1, 1, 0, 0, 0, 0, 0 >> }

\* heads that are refused or cut short: an unknown format, a format sum
\* past i32::MAX, a property list that fails, and too few bytes
CanvasBadHeads ==
    { << 0, 0, 2, 1, 5, 0, 0, 0, 0, 0 >>,
      << 0, 0, 2, 1, 128, 255, 255, 255, 127, 1, 0, 0, 0, 0 >>,
      << 0, 1, 0, 0, 1, 7 >>, << 0, 1, 0, 0, 255 >>, << 0, 0, 2 >>, << 0, 0, 2, 1, 1 >>, << >> }

\* the size field and the byte skipped after it: sizes of 7, 1, 13, 129 (a
\* first byte of 0x80), 0, -1 and i32::MIN, and fields cut short
CanvasSizes ==
    { << 7, 0, 0, 0, 0 >>, << 1, 0, 0, 0, 0 >>, << 13, 0, 0, 0, 0 >>, << 128, 0, 0, 0, 0 >>,
      << 3, 0, 0, 0, 0 >>,
      << 0, 0, 0, 0, 0 >>, << 255, 255, 255, 255, 0 >>, << 0, 0, 0, 128, 0 >>,
      << 7, 0, 0, 0 >>, << 7, 0 >>, << >> }

\* what follows: chunks that fill the payload, chunks with more chunks, or
\* other bytes, after them, a chunk cut short, a chunk of negative size,
\* the zlib header with and without bytes after the payload, and nothing
CanvasPayloads ==
    { << 2, 0, 0, 0, 65, 66 >>, << 2, 0, 0, 0, 65, 66, 1, 0, 0, 0, 67 >>,
      << 2, 0, 0, 0, 65, 66, 9 >>, << 2, 0, 0, 0, 65, 66, 0, 0, 0, 0 >>,
      << 0, 0, 0, 0, 0, 0, 0, 0 >>,
      << 1, 0, 0, 0, 65, 1, 0, 0, 0, 66 >>, << 5, 0, 0, 0, 65 >>,
      << 255, 255, 255, 255, 65 >>, << 2, 0 >>,
      << 120, 156, 3, 0, 0, 0 >>, << 120, 156, 3, 0, 0, 0, 0, 1, 9 >>, << 120, 156 >>,
      << 120 >>, << >> }
CanvasBytes ==
    { h \o s \o p : h \in CanvasHeads, s \in CanvasSizes, p \in CanvasPayloads }
        \cup { h \o s \o p : h \in CanvasBadHeads, s \in { << 7, 0, 0, 0, 0 >>, << >> },
                             p \in { << 2, 0, 0, 0, 65, 66 >>, << >> } }
CanvasStarts == { 0 }
CanvasParents == { 0 }

(***************************************************************************)
(* Video (entry/canvas/canvas.rs).  The u64 values of the model (the delay *)
(* unit, the delays and the start times) are below 2^16 and kept as        *)
(* naturals; a usize made of a negative i32 n is kept as n and stands for  *)
(* 2^64 + n.                                                               *)
(***************************************************************************)
MCV0 == << 77, 67, 86, 48 >>
ALPHA_MAP == 1
PER_FRAME_DEALY == 2
PER_FRAME_TIME_LINE == 4
MaxFrames == 2      \* frames of a video; a larger frame_cnt is a Vec too large to allocate

\* mcv_flag & bit == bit
HasFlag(mcv_flag, bit) == (mcv_flag \div bit) % 2 = 1

\* a usize as the position seek(SeekFrom::Start(..)) sets: one that stands
\* for 2^64 + n is past the end of every data, given as len + 1
SeekStart(n, len) == IF n < 0 THEN len + 1 ELSE n

\* a += b of usize, a made of an i32 and b a position: a sum that passes
\* 2^64 panics under overflow checks and wraps without them
AddUsize(a, b, overflow_checks) ==
    IF a < 0 /\ a + b >= 0 /\ overflow_checks THEN [res |-> "panic", val |-> 0]
    ELSE [res |-> "ok", val |-> a + b]

NoVideoAttr == [some |-> FALSE, properties |-> << >>, size |-> 0, fourcc |-> Zero32,
                width |-> 0, height |-> 0, frame_cnt |-> 0, mcv_flag |-> 0,
                frame_dealy_unit |-> 0, default_delay |-> 0, metadata |-> << >>]
VideoFail(res, pos, ns) ==
    [res |-> res, pos |-> pos, attr |-> NoVideoAttr, frames |-> << >>, ns |-> ns]

\* metadata.iter_mut().for_each(|frame| { a = get_i32_le() as usize; b =
\* get_i32_le() as usize }) from the i-th frame on
RECURSIVE ReadPairs(_, _, _, _)
ReadPairs(data, pos, i, n) ==
    IF i > n THEN [pos |-> pos, list |-> << >>]
    ELSE Pick({ Pick({ Pick({ [pos |-> rest.pos,
                               list |-> << [offset |-> a.val, size |-> b.val] >> \o rest.list] :
                             rest \in { ReadPairs(data, b.pos, i + 1, n) } }) :
                       b \in { GetI32Le(data, a.pos) } }) :
                a \in { GetI32Le(data, pos) } })

\* the delays: get_u32_le() of each frame under PER_FRAME_DEALY, and
\* default_delay otherwise, times frame_dealy_unit
RECURSIVE ReadDelays(_, _, _, _, _, _, _)
ReadDelays(data, pos, i, n, mcv_flag, unit, default_delay) ==
    IF i > n THEN [pos |-> pos, list |-> << >>]
    ELSE IF HasFlag(mcv_flag, PER_FRAME_DEALY)
    THEN Pick({ Pick({ [pos |-> rest.pos, list |-> << WordNat(d.val) * unit >> \o rest.list] :
                       rest \in { ReadDelays(data, d.pos, i + 1, n, mcv_flag, unit,
                                             default_delay) } }) :
                d \in { GetU32Le(data, pos) } })
    ELSE Pick({ [pos |-> rest.pos, list |-> << default_delay * unit >> \o rest.list] :
                rest \in { ReadDelays(data, pos, i + 1, n, mcv_flag, unit, default_delay) } })

\* the start times, a fold over the frames: get_u64_le() times the unit
\* under PER_FRAME_TIME_LINE, and otherwise the sum of the delays before
RECURSIVE ReadStarts(_, _, _, _, _, _, _, _)
ReadStarts(data, pos, i, n, mcv_flag, unit, delays, time) ==
    IF i > n THEN [pos |-> pos, list |-> << >>]
    ELSE IF HasFlag(mcv_flag, PER_FRAME_TIME_LINE)
    THEN Pick({ Pick({ [pos |-> rest.pos,
                        list |-> << WordNat(s.val) * unit >> \o rest.list] :
                       rest \in { ReadStarts(data, s.pos, i + 1, n, mcv_flag, unit, delays,
                                             time) } }) :
                s \in { GetU64Le(data, pos) } })
    ELSE Pick({ [pos |-> rest.pos, list |-> << time >> \o rest.list] :
                rest \in { ReadStarts(data, pos, i + 1, n, mcv_flag, unit, delays,
                                      time + delays[i]) } })

\* frame.data_offset += data_offset, and frame.alpha_data_offset +=
\* data_offset under has_alpha_map, from the i-th frame on
RECURSIVE ShiftFrames(_, _, _, _, _)
ShiftFrames(list, i, data_offset, has_alpha_map, overflow_checks) ==
    IF i > Len(list) THEN [res |-> "ok", list |-> list]
    ELSE Pick({ Pick({
             IF d.res # "ok" \/ a.res # "ok" THEN [res |-> "panic", list |-> << >>]
             ELSE ShiftFrames([list EXCEPT ![i].data_offset = d.val,
                                           ![i].alpha_data_offset = a.val],
                              i + 1, data_offset, has_alpha_map, overflow_checks) :
             a \in { IF has_alpha_map
                     THEN AddUsize(list[i].alpha_data_offset, data_offset, overflow_checks)
                     ELSE [res |-> "ok", val |-> list[i].alpha_data_offset] } }) :
           d \in { AddUsize(list[i].data_offset, data_offset, overflow_checks) } })

\* the metadata of VideoAttribute::try_from_accessor, read from pos on
VideoMetadata(data, pos, n, mcv_flag, unit, default_delay, overflow_checks) ==
    Pick({ Pick({ Pick({ Pick({ Pick({
        [res |-> shifted.res, pos |-> starts.pos, metadata |-> shifted.list] :
        shifted \in { ShiftFrames(
            Tuple([i \in 1..n |->
                [data_offset |-> frames.list[i].offset, data_size |-> frames.list[i].size,
                 alpha_data_offset |-> alphas.list[i].offset,
                 alpha_data_size |-> alphas.list[i].size,
                 delay |-> delays.list[i], start_time |-> starts.list[i]]]),
            1, starts.pos, HasFlag(mcv_flag, ALPHA_MAP), overflow_checks) } }) :
        starts \in { ReadStarts(data, delays.pos, 1, n, mcv_flag, unit, delays.list, 0) } }) :
        delays \in { ReadDelays(data, alphas.pos, 1, n, mcv_flag, unit, default_delay) } }) :
        alphas \in { IF HasFlag(mcv_flag, ALPHA_MAP) THEN ReadPairs(data, frames.pos, 1, n)
                     ELSE [pos |-> frames.pos,
                           list |-> Tuple([i \in 1..n |-> [offset |-> 0, size |-> 0]])] } }) :
        frames \in { ReadPairs(data, pos, 1, n) } })

\* VideoAttribute::try_from_accessor(opt, accessor)
VideoAttributeFromAccessor(cipher, data, pos, parent_offset, overflow_checks) ==
    Pick({
        IF properties.res # "ok" THEN VideoFail(properties.res, properties.pos, properties.ns)
        ELSE Pick({
            IF size.res # "ok" THEN VideoFail("panic", size.pos, properties.ns)
            ELSE Pick({
                IF flag.val # MCV0 THEN VideoFail("UnexpectedData", flag.pos, properties.ns)
                ELSE Pick({ Pick({ Pick({ Pick({ Pick({ Pick({ Pick({ Pick({
                    IF mcv_flag.res # "ok" \/ ~WordFits(frame_cnt.val, MaxFrames)
                    THEN VideoFail("panic", mcv_flag.pos, properties.ns)
                    ELSE Pick({
                        IF md.res # "ok" THEN VideoFail("panic", md.pos, properties.ns)
                        ELSE [res |-> "ok", pos |-> md.pos, frames |-> << >>,
                              ns |-> properties.ns,
                              attr |-> [some |-> properties.some,
                                        properties |-> properties.properties,
                                        size |-> size.val,
                                        fourcc |-> WXor(fourcc.val, << 165, 165, 165, 165 >>),
                                        width |-> width.val, height |-> height.val,
                                        frame_cnt |-> WordNat(frame_cnt.val),
                                        mcv_flag |-> mcv_flag.bytes[1],
                                        frame_dealy_unit |-> WordNat(frame_dealy_unit.val),
                                        default_delay |-> WordNat(default_delay.val),
                                        metadata |-> md.metadata]] :
                        md \in { VideoMetadata(data, properties.pos + header_len.val,
                                               WordNat(frame_cnt.val), mcv_flag.bytes[1],
                                               WordNat(frame_dealy_unit.val),
                                               WordNat(default_delay.val),
                                               overflow_checks) } }) :
                    default_delay \in { GetU32Le(data, frame_dealy_unit.pos) } }) :
                    frame_dealy_unit \in { GetU64Le(data, mcv_flag.pos + 3) } }) :
                    mcv_flag \in { CopyToSlice(data, frame_cnt.pos, 1) } }) :
                    frame_cnt \in { GetU32Le(data, height.pos) } }) :
                    height \in { GetU16Le(data, width.pos) } }) :
                    width \in { GetU16Le(data, fourcc.pos) } }) :
                    fourcc \in { GetU32Le(data, header_len.pos) } }) :
                    header_len \in { GetU16Le(data, flag.pos + 2) } }) :
                flag \in { GetU32Le(data, size.pos) } }) :
            size \in { GetVarI32Le(data, properties.pos + 1) } }) :
        properties \in { PropertiesBuiltin(cipher, data, pos, parent_offset,
                                           overflow_checks) } })

\* let mut data = vec![0; attribute.size]
FrameDataLen(attr, metadata) == attr.size

\* the closure of Video::try_from_accessor on the frames from the i-th on:
\* seek to data_offset and copy_to_slice, and the same for the alpha data
\* under ALPHA_MAP; a length that stands for 2^64 + n is one no Vec can hold
RECURSIVE VideoFrames(_, _, _, _)
VideoFrames(data, attr, i, pos) ==
    IF i > Len(attr.metadata) THEN [res |-> "ok", pos |-> pos, frames |-> << >>]
    ELSE Pick({
        IF FrameDataLen(attr, attr.metadata[i]) < 0 \/ d.res # "ok"
        THEN [res |-> "panic", pos |-> d.pos, frames |-> << >>]
        ELSE Pick({
            IF a.res # "ok" THEN [res |-> "panic", pos |-> a.pos, frames |-> << >>]
            ELSE Pick({ [res |-> rest.res, pos |-> rest.pos,
                         frames |-> IF rest.res = "ok"
                                    THEN << [data |-> d.bytes, alpha_data |-> a.bytes] >>
                                             \o rest.frames
                                    ELSE << >>] :
                        rest \in { VideoFrames(data, attr, i + 1, a.pos) } }) :
            a \in { IF ~HasFlag(attr.mcv_flag, ALPHA_MAP)
                    THEN [res |-> "ok", pos |-> d.pos, bytes |-> << >>]
                    ELSE IF attr.metadata[i].alpha_data_size < 0
                    THEN [res |-> "panic", pos |-> d.pos, bytes |-> << >>]
                    ELSE CopyToSlice(data,
                                     SeekStart(attr.metadata[i].alpha_data_offset, Len(data)),
                                     attr.metadata[i].alpha_data_size) } }) :
        d \in { CopyToSlice(data, SeekStart(attr.metadata[i].data_offset, Len(data)),
                            Max(0, FrameDataLen(attr, attr.metadata[i]))) } })

\* Video::try_from_accessor(opt, accessor)
VideoFromAccessor(cipher, data, pos, parent_offset, overflow_checks) ==
    Pick({ IF a.res # "ok" THEN a
           ELSE Pick({ [res |-> f.res, pos |-> f.pos, attr |-> a.attr, frames |-> f.frames,
                        ns |-> a.ns] :
                       f \in { VideoFrames(data, a.attr, 1, a.pos) } }) :
           a \in { VideoAttributeFromAccessor(cipher, data, pos, parent_offset,
                                              overflow_checks) } })

\* Video::try_from_accessor(opt, accessor)
VideoCall ==
    /\ acc.open /\ opt.set /\ ret = NoRet
    /\ \E overflow_checks \in BOOLEAN :
       \E r \in { VideoFromAccessor(acc.cipher, acc.data, acc.pos, opt.parent_offset,
                                    overflow_checks) } :
       \E cipher \in AccCryptAfterAll(acc.cipher, r.ns) :
         /\ acc' = [acc EXCEPT !.pos = r.pos, !.cipher = cipher]
         /\ ret' = [name |-> "Video::try_from_accessor", from |-> acc.pos, res |-> r.res,
                    attr |-> r.attr, frames |-> r.frames, k |-> 1]
    /\ UNCHANGED opt

\* an i32 of the model as its 4 little-endian bytes
I32Bytes(n) == IF n < 0 THEN << 256 + n, 255, 255, 255 >> ELSE << n, 0, 0, 0 >>

\* the head of a video: no properties, a byte, the size, MCV0, 2 bytes, a
\* header_len of 38, fourcc, width, height, frame_cnt, mcv_flag, 3 bytes, a
\* delay unit of 3 and a default delay of 5
VideoHead(size, cnt, flag) ==
    << 0, 0, 9, size >> \o MCV0 \o << 0, 0, 38, 0, 1, 2, 3, 4, 4, 0, 4, 0, cnt, 0, 0, 0, flag,
       0, 0, 0, 3, 0, 0, 0, 0, 0, 0, 0, 5, 0, 0, 0 >>

\* the metadata of cnt frames of sz bytes one after another, the first at
\* first, then under ALPHA_MAP alpha data of 1 byte each after them, under
\* PER_FRAME_DEALY delays of 2, under PER_FRAME_TIME_LINE start times of 7
RECURSIVE Flat(_)
Flat(ss) == IF ss = << >> THEN << >> ELSE Head(ss) \o Flat(Tail(ss))
VideoMeta(cnt, flag, first, sz) ==
    Flat([i \in 1..cnt |-> I32Bytes(first + (i - 1) * sz) \o I32Bytes(sz)])
        \o (IF HasFlag(flag, ALPHA_MAP)
            THEN Flat([i \in 1..cnt |-> I32Bytes(cnt * sz + (i - 1)) \o I32Bytes(1)])
            ELSE << >>)
        \o (IF HasFlag(flag, PER_FRAME_DEALY) THEN Flat([i \in 1..cnt |-> << 2, 0, 0, 0 >>])
            ELSE << >>)
        \o (IF HasFlag(flag, PER_FRAME_TIME_LINE)
            THEN Flat([i \in 1..cnt |-> << 7, 0, 0, 0, 0, 0, 0, 0 >>])
            ELSE << >>)

\* videos whole, with frame data that ends the source or is followed by
\* more, with a size that is or is not the size of a frame, with an offset
\* or a size below zero, with more frames than MaxFrames; a flag that is
\* not MCV0; heads cut short
VideoBytes ==
    { VideoHead(size, cnt, flag) \o VideoMeta(cnt, flag, first, sz) \o tail :
          size \in { 0, 1, 2, 255 }, cnt \in 0..(MaxFrames + 1), flag \in { 0, 1, 2, 4, 7 },
          first \in { 0, -1 }, sz \in { 0, 1, 2, -1 },
          tail \in { << >>, << 65, 66 >>, << 65, 66, 67, 68, 69, 70 >> } }
        \cup { << 0, 0, 9, 2, 77, 67, 86, 49, 0, 0, 38, 0 >>,
               SubSeq(VideoHead(1, 1, 0), 1, 20), SubSeq(VideoHead(1, 1, 0), 1, 24),
               << 0, 0, 9 >>, << 0, 0 >>, << >> }

(***************************************************************************)
(* The cursor (reader/accessor.rs, reader/binary.rs)                       *)
(***************************************************************************)
MaxPast == 2        \* how far past the end of the data a seek goes

\* accessor.remaining()
RemainingCall ==
    /\ AccReady
    /\ \E overflow_checks \in BOOLEAN :
       \E r \in { remaining(acc.data, acc.pos, overflow_checks) } :
         ret' = [name |-> "remaining", from |-> acc.pos, res |-> r.res, val |-> r.val,
                 wrapped |-> r.wrapped, k |-> Calls + 1]
    /\ UNCHANGED << acc, opt >>

\* accessor.has_remaining()
HasRemainingCall ==
    /\ AccReady
    /\ \E overflow_checks \in BOOLEAN :
       \E r \in { has_remaining(acc.data, acc.pos, overflow_checks) } :
         ret' = [name |-> "has_remaining", from |-> acc.pos, res |-> r.res, val |-> r.val,
                 k |-> Calls + 1]
    /\ UNCHANGED << acc, opt >>

\* accessor.advance(nbytes): seek(SeekFrom::Current(nbytes as i64))
AdvanceCall(nbytes) ==
    /\ AccReady /\ acc.pos + nbytes <= Len(acc.data) + MaxPast
    /\ \E r \in { TrySeekCurrent(acc.pos, nbytes) } :
         /\ acc' = [acc EXCEPT !.pos = r.pos]
         /\ ret' = [name |-> "advance", from |-> acc.pos, res |-> r.res, k |-> Calls + 1]
    /\ UNCHANGED opt

\* accessor.get_u32_le()
GetU32LeCall ==
    /\ AccReady
    /\ \E r \in { GetU32Le(acc.data, acc.pos) } :
         /\ acc' = [acc EXCEPT !.pos = r.pos]
         /\ ret' = [name |-> "get_u32_le", from |-> acc.pos, res |-> r.res, val |-> r.val,
                    k |-> Calls + 1]
    /\ UNCHANGED opt

\* the data the cursor moves on, of 0 to 6 bytes
CursorData == { SubSeq(<< 1, 2, 3, 4, 5, 6 >>, 1, n) : n \in 0..6 }

(***************************************************************************)
(* Plain-text properties (entry/properties/lexer.rs, property.rs).  The    *)
(* text is kept as the code points of its chars, all of them ASCII.        *)
(***************************************************************************)
NEW_LINE == 10
EQUAL_SIGN == 61
LEFT_BRACE == 123
RIGHT_BRACE == 125

\* char::is_whitespace, on ASCII
IsWhitespace(c) == c \in { 9, 10, 11, 12, 13, 32 }

\* match c { '=' => .., '{' => .., '}' => .., NEW_LINE => .., _ => .. }
TokenKindOf(c) ==
    IF c = EQUAL_SIGN THEN "Equal"
    ELSE IF c = LEFT_BRACE THEN "LeftBrace"
    ELSE IF c = RIGHT_BRACE THEN "RightBrace"
    ELSE IF c = NEW_LINE THEN "EndOfLine"
    ELSE "none"

NoToken(rest) == [some |-> FALSE, kind |-> "none", origin |-> << >>, rest |-> rest]

\* the for loop of Lexer::next from the i-th char of rest on: last is rest
\* without its first `skipped` chars, a whitespace char before the first
\* word char moves last by one, every other whitespace char is passed over,
\* a word char adds one to words, and a delimiter ends the token, whose
\* origin is &last[..words]
RECURSIVE LexScan(_, _, _, _)
LexScan(rest, i, skipped, words) ==
    IF i > Len(rest) THEN NoToken(<< >>)
    ELSE IF TokenKindOf(rest[i]) # "none"
         THEN [some |-> TRUE, kind |-> TokenKindOf(rest[i]),
               origin |-> SubSeq(rest, skipped + 1, skipped + words),
               rest |-> SubSeq(rest, i + 1, Len(rest))]
    ELSE IF IsWhitespace(rest[i])
         THEN LexScan(rest, i + 1, IF words = 0 THEN skipped + 1 ELSE skipped, words)
    ELSE LexScan(rest, i + 1, skipped, words + 1)

\* Lexer::next
LexerNext(rest) == LexScan(rest, 1, 0, 0)

\* parse_equal: the origin of the next Equal token, tokens EndOfLine
\* passed over; None at any other token and at the end
RECURSIVE parse_equal(_)
parse_equal(rest) ==
    Pick({ IF ~token.some THEN [some |-> FALSE, key |-> << >>, rest |-> token.rest]
           ELSE IF token.kind = "Equal"
                THEN [some |-> TRUE, key |-> token.origin, rest |-> token.rest]
           ELSE IF token.kind = "EndOfLine" THEN parse_equal(token.rest)
           ELSE [some |-> FALSE, key |-> << >>, rest |-> token.rest] :
           token \in { LexerNext(rest) } })

PlainValue(origin) == [kind |-> "Value", str |-> origin, properties |-> << >>]
PlainNested(properties) == [kind |-> "Nested", str |-> << >>, properties |-> properties]
NoPlain(rest) ==
    [some |-> FALSE, name |-> << >>, value |-> PlainValue(<< >>), rest |-> rest]

\* while let Some(p) = parse_value(&mut lexer) { properties.push(p) }
RECURSIVE ParseList(_, _)
\* parse_value
RECURSIVE parse_value(_)
parse_value(rest) ==
    Pick({ IF ~key.some THEN NoPlain(key.rest)
           ELSE Pick({
               IF ~next.some THEN NoPlain(next.rest)
               ELSE IF next.kind = "LeftBrace"
                    THEN Pick({ [some |-> TRUE, name |-> key.key,
                                 value |-> PlainNested(l.properties), rest |-> l.rest] :
                                l \in { ParseList(next.rest, << >>) } })
               ELSE IF next.kind = "EndOfLine"
                    THEN [some |-> TRUE, name |-> key.key, value |-> PlainValue(next.origin),
                          rest |-> next.rest]
               ELSE NoPlain(next.rest) :
               next \in { LexerNext(key.rest) } }) :
           key \in { parse_equal(rest) } })

ParseList(rest, properties) ==
    Pick({ IF p.some
           THEN ParseList(p.rest, Append(properties,
                                         [name |-> p.name, value |-> p.value]))
           ELSE [properties |-> properties, rest |-> p.rest] :
           p \in { parse_value(rest) } })

\* PlainProperties::try_from_accessor: the bytes that remain, as a String,
\* and the properties parse_value gives until it gives None
PlainFromAccessor(data, pos, overflow_checks) ==
    Pick({ IF size.res # "ok" \/ size.wrapped
           THEN [res |-> "panic", pos |-> pos, properties |-> << >>]
           ELSE Pick({ [res |-> "ok", pos |-> buffer.pos,
                        properties |-> ParseList(buffer.bytes, << >>).properties] :
                       buffer \in { CopyToSlice(data, pos, size.val) } }) :
           size \in { remaining(data, pos, overflow_checks) } })

\* PlainProperties::try_from_accessor(opt, accessor)
PlainCall ==
    /\ acc.open /\ ret = NoRet
    /\ \E overflow_checks \in BOOLEAN :
       \E r \in { PlainFromAccessor(acc.data, acc.pos, overflow_checks) } :
         /\ acc' = [acc EXCEPT !.pos = r.pos]
         /\ ret' = [name |-> "PlainProperties::try_from_accessor", from |-> acc.pos,
                    res |-> r.res, properties |-> r.properties]
    /\ UNCHANGED opt

MaxText == 4        \* chars of a text made of every choice of chars

\* the chars a, space, =, {, } and the newline
PlainChars == { 97, 32, EQUAL_SIGN, LEFT_BRACE, RIGHT_BRACE, NEW_LINE }

\* "a = b c\n", "ab = c\n", "a =  b  \n", "a b = c\n", "a = b\tc d\n",
\* "a={\nb=c\n}\n", "a = {\nb = c d\nc=d\n}\nd=e\n", "a={\nb={\nc=d\n}\n}\nd=e\n",
\* "a={\nb=c\n", "a={\nb=c\n}}\nd=e\n", "a=b=c\nd=e\n", "a=b", "x\na=b\n"
PlainTexts ==
    { << 97, 32, 61, 32, 98, 32, 99, 10 >>, << 97, 98, 32, 61, 32, 99, 10 >>,
      << 97, 32, 61, 32, 32, 98, 32, 32, 10 >>, << 97, 32, 98, 32, 61, 32, 99, 10 >>,
      << 97, 32, 61, 32, 98, 9, 99, 32, 100, 10 >>,
      << 97, 61, 123, 10, 98, 61, 99, 10, 125, 10 >>,
      << 97, 32, 61, 32, 123, 10, 98, 32, 61, 32, 99, 32, 100, 10, 99, 61, 100, 10, 125, 10,
         100, 61, 101, 10 >>,
      << 97, 61, 123, 10, 98, 61, 123, 10, 99, 61, 100, 10, 125, 10, 125, 10, 100, 61, 101, 10 >>,
      << 97, 61, 123, 10, 98, 61, 99, 10 >>,
      << 97, 61, 123, 10, 98, 61, 99, 10, 125, 125, 10, 100, 61, 101, 10 >>,
      << 97, 61, 98, 61, 99, 10, 100, 61, 101, 10 >>, << 97, 61, 98 >>,
      << 120, 10, 97, 61, 98, 10 >> }
PlainData ==
    PlainTexts \cup UNION { [1..n -> PlainChars] : n \in 0..MaxText }
PlainStarts == { 0, 1 }

(***************************************************************************)
(* Entry and EntryCache (extra/entry.rs, extra/cache.rs).  An Entry is     *)
(* kept as what its decoders give: its name, value and offset, and the     *)
(* listing try_iter decodes for it, or the failure of that decode.         *)
(***************************************************************************)
MaxNavCalls == 3    \* calls made on the navigators in a run
MaxPath == 2        \* components of a path

NoNav == [open |-> FALSE]
NoEntry == [name |-> "", value |-> "", offset |-> 0, kids |-> [ok |-> TRUE, list |-> << >>]]

\* Entry::try_iter: the listing decoded anew, or the decoder's Err
try_iter(entry) == entry.kids

\* Iterator::find(|e| e.name == name): the first one of the name
Find(list, name) ==
    IF \E i \in 1..Len(list) : list[i].name = name
    THEN [some |-> TRUE,
          entry |-> list[CHOOSE i \in 1..Len(list) :
                             /\ list[i].name = name
                             /\ \A j \in 1..(i - 1) : list[j].name # name]]
    ELSE [some |-> FALSE, entry |-> NoEntry]

\* Entry::try_get(name)
EntryTryGet(entry, name) ==
    IF ~try_iter(entry).ok THEN [res |-> "Err", some |-> FALSE, entry |-> NoEntry]
    ELSE Pick({ [res |-> "ok", some |-> f.some, entry |-> f.entry] :
                f \in { Find(try_iter(entry).list, name) } })

\* ComponentIter over path.components(): the names up to the first
\* component that is . or .. (the iterator ends there)
RECURSIVE Components(_)
Components(path) ==
    IF path = << >> \/ Head(path) \in { ".", ".." } THEN << >>
    ELSE << Head(path) >> \o Components(Tail(path))

\* the loop of Entry::try_get_by_path: cursor = entry.try_get(name)? for
\* each further name while the cursor is Some
RECURSIVE EntryWalk(_, _)
EntryWalk(cursor, names) ==
    IF names = << >> THEN cursor
    ELSE IF ~cursor.some THEN [res |-> "ok", some |-> FALSE, entry |-> NoEntry]
    ELSE Pick({ IF r.res # "ok" THEN r ELSE EntryWalk(r, Tail(names)) :
                r \in { EntryTryGet(cursor.entry, Head(names)) } })

\* Entry::try_get_by_path(path)
EntryTryGetByPath(entry, path) ==
    Pick({ IF components = << >> THEN [res |-> "ok", some |-> FALSE, entry |-> NoEntry]
           ELSE Pick({ IF first.res # "ok" THEN first
                       ELSE EntryWalk(first, Tail(components)) :
                       first \in { EntryTryGet(entry, Head(components)) } }) :
           components \in { Components(path) } })

\* for_each(|e| cache.insert(e.name().to_owned(), EntryCache { entry: e,
\* cache: OnceCell::new() })): a HashMap, an insert under a name it holds
\* replacing the value
RECURSIVE Insert(_, _)
Insert(cache, list) ==
    IF list = << >> THEN cache
    ELSE Insert([n \in DOMAIN cache \cup { Head(list).name } |->
                    IF n = Head(list).name THEN Head(list) ELSE cache[n]],
                Tail(list))

\* the empty HashMap
EmptyMap == [n \in {} |-> NoEntry]

\* (the cell never found set: the listing decoded at every call)
CacheMapAnew(st, p, entry) ==
    Pick({ IF ~try_iter(entry).ok THEN [st |-> s, res |-> "Err", map |-> EmptyMap]
           ELSE Pick({ [st |-> [s EXCEPT !.cache = [q \in DOMAIN s.cache \cup { p } |->
                                                       IF q = p THEN m ELSE s.cache[q]]],
                        res |-> "ok", map |-> m] :
                       m \in { Insert(EmptyMap, try_iter(entry).list) } }) :
           s \in { [st EXCEPT !.reads[p] = @ + 1] } })

\* EntryCache::cache_map on the node at path p, whose entry is entry: the
\* map of the cell when it is set; else the listing decoded by try_iter,
\* and when that succeeded, collected into a map and stored in the cell.
\* st holds the cells set (cache) and the try_iter calls made (reads).
cache_map(st, p, entry) ==
    IF p \in DOMAIN st.cache THEN [st |-> st, res |-> "ok", map |-> st.cache[p]]
    ELSE Pick({ IF ~try_iter(entry).ok THEN [st |-> s, res |-> "Err", map |-> EmptyMap]
                ELSE Pick({ [st |-> [s EXCEPT !.cache = [q \in DOMAIN s.cache \cup { p } |->
                                                            IF q = p THEN m ELSE s.cache[q]]],
                             res |-> "ok", map |-> m] :
                            m \in { Insert(EmptyMap, try_iter(entry).list) } }) :
                s \in { [st EXCEPT !.reads[p] = @ + 1] } })

\* EntryCache::try_get(name) on the node at p: Ok(self.cache_map()?.get(name))
CacheTryGet(st, p, entry, name) ==
    Pick({ IF m.res # "ok" THEN [st |-> m.st, res |-> "Err", some |-> FALSE, entry |-> NoEntry]
           ELSE IF name \in DOMAIN m.map
                THEN [st |-> m.st, res |-> "ok", some |-> TRUE, entry |-> m.map[name]]
           ELSE [st |-> m.st, res |-> "ok", some |-> FALSE, entry |-> NoEntry] :
           m \in { cache_map(st, p, entry) } })

\* the loop of EntryCache::try_get_by_path, the cursor being the node at p
RECURSIVE CacheWalk(_, _, _)
CacheWalk(cursor, p, names) ==
    IF names = << >> THEN cursor
    ELSE IF ~cursor.some
         THEN [st |-> cursor.st, res |-> "ok", some |-> FALSE, entry |-> NoEntry]
    ELSE Pick({ IF r.res # "ok" THEN r ELSE CacheWalk(r, Append(p, Head(names)), Tail(names)) :
                r \in { CacheTryGet(cursor.st, p, cursor.entry, Head(names)) } })

\* EntryCache::try_get_by_path(path) on the node at p
CacheTryGetByPath(st, p, entry, path) ==
    Pick({ IF components = << >>
           THEN [st |-> st, res |-> "ok", some |-> FALSE, entry |-> NoEntry]
           ELSE Pick({ IF first.res # "ok" THEN first
                       ELSE CacheWalk(first, Append(p, Head(components)), Tail(components)) :
                       first \in { CacheTryGet(st, p, entry, Head(components)) } }) :
           components \in { Components(path) } })

\* The names of children and of path components, and the paths asked for.
NavNames == { "a", "b", "c", "x" }
PathsOf(n) == UNION { [1..k -> NavNames] : k \in 0..n }
NavNodes == PathsOf(MaxPath + 1)
NavPaths == { q \in UNION { [1..k -> NavNames \cup { ".." }] : k \in 0..MaxPath } :
                  \A i \in 1..Len(q) : q[i] = ".." => i = Len(q) /\ i > 1 }

Leaf(n, v, o) ==
    [name |-> n, value |-> v, offset |-> o, kids |-> [ok |-> TRUE, list |-> << >>]]
Folder(n, o, list) ==
    [name |-> n, value |-> "Folder", offset |-> o, kids |-> [ok |-> TRUE, list |-> list]]
Broken(n, o) ==
    [name |-> n, value |-> "Folder", offset |-> o, kids |-> [ok |-> FALSE, list |-> << >>]]

\* The trees the navigators are put on: one without names that repeat, one
\* whose root lists two children a (folders of different children), one
\* with a folder that lists two c, one with a folder whose listing fails to
\* decode, a root whose listing fails, and an empty root.
NavTrees ==
    { Folder("root", 0, << Leaf("a", "1", 10),
                           Folder("b", 20, << Leaf("c", "3", 21), Leaf("a", "4", 22) >>),
                           Leaf("c", "5", 30) >>),
      Folder("root", 0, << Folder("a", 10, << Leaf("c", "1", 11) >>),
                           Leaf("b", "2", 20),
                           Folder("a", 30, << Leaf("c", "9", 31), Leaf("b", "8", 32) >>) >>),
      Folder("root", 0, << Folder("b", 10, << Leaf("c", "1", 11), Leaf("a", "2", 12),
                                              Leaf("c", "3", 13) >>) >>),
      Folder("root", 0, << Broken("a", 10), Leaf("b", "2", 20) >>),
      Broken("root", 0),
      Folder("root", 0, << >>) }

\* the node of the cache at path p (names from the root on) has been handed
\* out: each map on the way is stored and holds the next name
Reached(p) ==
    \A i \in 0..(Len(p) - 1) :
        /\ SubSeq(p, 1, i) \in DOMAIN nav.cache
        /\ p[i + 1] \in DOMAIN nav.cache[SubSeq(p, 1, i)]
CacheEntryAt(p) ==
    IF p = << >> THEN nav.root ELSE nav.cache[SubSeq(p, 1, Len(p) - 1)][p[Len(p)]]

NavReady == nav.open /\ nav.k < MaxNavCalls
NavState == [cache |-> nav.cache, reads |-> nav.reads]

\* EntryCache::try_from(entry): the cell new, and cache_map()? on the root
NavOpen(tree) ==
    /\ ~nav.open
    /\ \E m \in { cache_map([cache |-> [q \in {} |-> EmptyMap],
                             reads |-> [q \in NavNodes |-> 0]], << >>, tree) } :
         nav' = [open |-> m.res = "ok", root |-> tree, cache |-> m.st.cache,
                 reads |-> m.st.reads, k |-> 0,
                 last |-> [name |-> "EntryCache::try_from", res |-> m.res]]
    /\ UNCHANGED << tableVars, snowVars, readerVars, accVars >>

\* cache.try_get_by_path(path) on the node at p, a node handed out before
\* (try_get(name) is the path of the one name)
CacheGetCall(p, path) ==
    /\ NavReady /\ Reached(p)
    /\ \E r \in { CacheTryGetByPath(NavState, p, CacheEntryAt(p), path) } :
         nav' = [nav EXCEPT !.cache = r.st.cache, !.reads = r.st.reads, !.k = @ + 1,
                            !.last = [name |-> "EntryCache::try_get_by_path", at |-> p,
                                      path |-> path, res |-> r.res, some |-> r.some,
                                      entry |-> r.entry, self |-> CacheEntryAt(p)]]
    /\ UNCHANGED << tableVars, snowVars, readerVars, accVars >>

\* cache.try_iter() on the node at p: the values of the map
CacheIterCall(p) ==
    /\ NavReady /\ Reached(p)
    /\ \E m \in { cache_map(NavState, p, CacheEntryAt(p)) } :
         nav' = [nav EXCEPT !.cache = m.st.cache, !.reads = m.st.reads, !.k = @ + 1,
                            !.last = [name |-> "EntryCache::try_iter", at |-> p,
                                      res |-> m.res,
                                      values |-> { m.map[n] : n \in DOMAIN m.map },
                                      self |-> CacheEntryAt(p)]]
    /\ UNCHANGED << tableVars, snowVars, readerVars, accVars >>

InitNav == nav = NoNav

(***************************************************************************)
(* Specifications                                                          *)
(***************************************************************************)
InitTable ==
    /\ cells = [k \in CellIds |-> NoCell]
    /\ ciphers = [c \in CipherIds |-> NoCipher]
    /\ op = NoOp
    /\ calls = 0

Init == InitTable /\ InitSnow /\ InitReader /\ InitAcc /\ InitNav

NextTable ==
    /\ \/ \E iv \in IVs, kind \in { "MapleTable", "Rc" } : New(iv, kind)
       \/ \E c \in CipherIds, n \in BufLens : Crypt(c, n)
       \/ \E c \in CipherIds : CloneBoxed(c)
    /\ UNCHANGED << snowVars, readerVars, accVars, navVars >>

\* Ciphers built, cloned and used in any order.
SpecTable == Init /\ [][NextTable]_vars

NextCrypt ==
    /\ \/ \E iv \in IVs, kind \in { "MapleTable", "Rc" } : NewFirst(iv, kind)
       \/ \E c \in CipherIds, n \in BufLens : CryptCounted(c, n)
    /\ UNCHANGED << snowVars, readerVars, accVars, navVars >>

\* One cipher and the history of its crypt calls.
SpecCrypt == Init /\ [][NextCrypt]_vars

NextSnow ==
    /\ \/ \E i \in SnowIds, key \in SnowKeys, iv \in SnowIVs : SnowNew(i, key, iv)
       \/ \E buf \in SnowBufs : SnowLoad(buf)
       \/ \E i \in SnowIds, is_enc \in BOOLEAN : SnowCrypt(i, is_enc)
    /\ UNCHANGED << tableVars, readerVars, accVars, navVars >>

\* Snow2 values built and used on one buffer, in any order.
SpecSnow == Init /\ [][NextSnow]_vars

NextReader ==
    /\ \/ \E data \in ReaderData, key \in SnowKeys : ReaderNew(data, key)
       \/ \E data \in ReaderData, key \in SnowKeys, n \in WithBufferLens :
             ReaderWithBuffer(data, n, key)
       \/ \E n \in ReadLens : ReaderRead(n)
    /\ UNCHANGED << tableVars, snowVars, accVars, navVars >>

\* One reader::Snow2 and the reads made of it.
SpecReader == Init /\ [][NextReader]_vars

NextVarInt ==
    /\ \/ \E data \in VarIntData, pos \in VarIntStarts : AccOpen(data, pos, NoneCipher)
       \/ GetVarI32LeCall
    /\ UNCHANGED << tableVars, snowVars, readerVars, navVars >>

\* One accessor and one get_var_i32_le on it.
SpecVarInt == Init /\ [][NextVarInt]_vars

NextOffset ==
    /\ \/ \E h \in VerHashes, parent \in ParentOffsets : WithOpt(h, parent)
       \/ \E data \in OffsetData, pos \in OffsetStarts : AccOpen(data, pos, NoneCipher)
       \/ ComputeOffsetCall
    /\ UNCHANGED << tableVars, snowVars, readerVars, navVars >>

\* One directory entry's offset field and one compute_offset on it.
SpecOffset == Init /\ [][NextOffset]_vars

NextString ==
    /\ \/ \E data \in StringData, pos \in StringStarts, cipher \in StringCiphers :
            AccOpen(data, pos, cipher)
       \/ DecryptStringSliceCall
    /\ UNCHANGED << tableVars, snowVars, readerVars, navVars >>

\* One accessor and one decrypt_string_slice on it.
SpecString == Init /\ [][NextString]_vars

NextFlagged ==
    /\ \/ \E data \in FlaggedData, cipher \in StringCiphers : AccOpen(data, 0, cipher)
       \/ \E pos \in FlaggedStarts : AccSeek(pos)
       \/ \E name \in { "try_get_uol_string", "try_get_image_string" },
             parent_offset \in FlaggedParents : FlaggedStringCall(name, parent_offset)
    /\ UNCHANGED << tableVars, snowVars, readerVars, navVars >>

\* One accessor over an image's bytes: seeks and flagged string reads.
SpecFlagged == Init /\ [][NextFlagged]_vars

NextImage ==
    /\ \/ \E data \in ImageData, pos \in ImageStarts, cipher \in StringCiphers :
            AccOpen(data, pos, cipher)
       \/ \E parent_offset \in ImageParents : ImageCall(parent_offset)
    /\ UNCHANGED << tableVars, snowVars, readerVars, navVars >>

\* One accessor on a node and one Image::try_from_accessor on it.
SpecImage == Init /\ [][NextImage]_vars

NextDir ==
    /\ \/ \E data \in DirData, cipher \in StringCiphers : AccOpen(data, 0, cipher)
       \/ \E h \in DirHashes, parent \in DirParents : WithOpt(h, parent)
       \/ \E pos \in DirStarts : AccSeek(pos)
       \/ DirectoryCall
       \/ DirectoriesCall
    /\ UNCHANGED << tableVars, snowVars, readerVars, navVars >>

\* One accessor over an archive's directory bytes: seeks, and reads of
\* records and folders.
SpecDir == Init /\ [][NextDir]_vars

NextProp ==
    /\ \/ \E data \in PropData, pos \in PropStarts, cipher \in StringCiphers :
            AccOpen(data, pos, cipher)
       \/ \E h \in PropHashes, parent \in PropParents : WithOpt(h, parent)
       \/ PropertyCall
    /\ UNCHANGED << tableVars, snowVars, readerVars, navVars >>

\* One accessor on encoded properties, and reads of properties one after
\* another.
SpecProp == Init /\ [][NextProp]_vars

NextWizet ==
    /\ \/ \E data \in WizetFiles, ver \in Versions, no_version \in BOOLEAN :
            WizetNew(data, ver, no_version)
       \/ WizetAccessorOpt
    /\ UNCHANGED << tableVars, snowVars, readerVars, navVars >>

\* One WZ file opened with a version, and the options taken from it.
SpecWizet == Init /\ [][NextWizet]_vars

NextVersion ==
    /\ \/ HashCall
       \/ HashEncCall
    /\ UNCHANGED << tableVars, snowVars, readerVars, navVars >>

\* One call of hash or of hash_enc on any version.
SpecVersion == Init /\ [][NextVersion]_vars

NextPack ==
    /\ \/ \E name \in PackNames, data \in PackFiles : PackNew(name, data)
       \/ PackEntriesCall
    /\ UNCHANGED << tableVars, snowVars, readerVars, navVars >>

\* One pack file opened, and its entry table listed.
SpecPack == Init /\ [][NextPack]_vars

NextNav ==
    \/ \E tree \in NavTrees : NavOpen(tree)
    \/ \E p \in PathsOf(MaxPath), path \in NavPaths : CacheGetCall(p, path)
    \/ \E p \in PathsOf(MaxPath) : CacheIterCall(p)

\* One Entry turned into an EntryCache, and the gets and iterations made on
\* the cache's nodes.
SpecNav == Init /\ [][NextNav]_vars

NextPlain ==
    /\ \/ \E data \in PlainData, pos \in PlainStarts : AccOpen(data, pos, NoneCipher)
       \/ PlainCall
    /\ UNCHANGED << tableVars, snowVars, readerVars, navVars >>

\* One accessor on a plain-text property list, and its parse.
SpecPlain == Init /\ [][NextPlain]_vars

NextCanvasAttr ==
    /\ \/ \E data \in CanvasBytes, pos \in CanvasStarts, cipher \in StringCiphers :
            AccOpen(data, pos, cipher)
       \/ \E h \in PropHashes, parent \in CanvasParents : WithOpt(h, parent)
       \/ CanvasAttributeCall
    /\ UNCHANGED << tableVars, snowVars, readerVars, navVars >>

\* One accessor on a canvas, and the parse of its attribute.
SpecCanvasAttr == Init /\ [][NextCanvasAttr]_vars

NextCanvas ==
    /\ \/ \E data \in CanvasBytes, pos \in CanvasStarts, cipher \in StringCiphers :
            AccOpen(data, pos, cipher)
       \/ \E h \in PropHashes, parent \in CanvasParents : WithOpt(h, parent)
       \/ CanvasCall
    /\ UNCHANGED << tableVars, snowVars, readerVars, navVars >>

\* One accessor on a canvas, and the parse of the canvas.
SpecCanvas == Init /\ [][NextCanvas]_vars

NextVideo ==
    /\ \/ \E data \in VideoBytes, pos \in CanvasStarts, cipher \in StringCiphers :
            AccOpen(data, pos, cipher)
       \/ \E h \in PropHashes, parent \in CanvasParents : WithOpt(h, parent)
       \/ VideoCall
    /\ UNCHANGED << tableVars, snowVars, readerVars, navVars >>

\* One accessor on a video, and its parse.
SpecVideo == Init /\ [][NextVideo]_vars

NextCursor ==
    /\ \/ \E data \in CursorData : AccOpen(data, 0, NoneCipher)
       \/ \E pos \in 0..(6 + MaxPast) :
            acc.open /\ pos <= Len(acc.data) + MaxPast /\ AccSeek(pos)
       \/ \E nbytes \in 1..3 : AdvanceCall(nbytes)
       \/ GetU32LeCall
       \/ RemainingCall
       \/ HasRemainingCall
    /\ UNCHANGED << tableVars, snowVars, readerVars, navVars >>

\* One accessor: seeks, reads, and what it says is left.
SpecCursor == Init /\ [][NextCursor]_vars

(***************************************************************************)
(* The keystream of an IV, as the format defines it: block 0 is the IV     *)
(* repeated and encrypted, block j the encryption of block j - 1.          *)
(***************************************************************************)
RECURSIVE KeyBlock(_, _)
KeyBlock(iv, j) ==
    IF j = 0
    THEN AesEncryptBlock(Tuple([i \in 1..BLOCK_SIZE |-> iv[((i - 1) % IV_SIZE) + 1]]))
    ELSE AesEncryptBlock(KeyBlock(iv, j - 1))

\* byte i (from 0) of the keystream of iv
KeyByte(iv, i) == KeyBlock(iv, i \div BLOCK_SIZE)[(i % BLOCK_SIZE) + 1]

LiveCells == { k \in CellIds : cells[k].live }
TabOf(c) == cells[ciphers[c].cell].tab
IsPrefix(s, t) == Len(s) <= Len(t) /\ SubSeq(t, 1, Len(s)) = s
Block(tab, j) == SubSeq(tab, j * BLOCK_SIZE + 1, (j + 1) * BLOCK_SIZE)

\* C1: two tables built from the same IV hold the same byte at every index
\* both have materialized, whatever sizes each was asked for.
C1_SameKeystream ==
    \A k1 \in LiveCells, k2 \in LiveCells :
        cells[k1].iv = cells[k2].iv =>
            \A i \in 1..Min(Len(cells[k1].tab), Len(cells[k2].tab)) :
                cells[k1].tab[i] = cells[k2].tab[i]

\* Two independently built tables of one IV, both extended, by different requests.
C1_Witness ==
    \E c1 \in LiveCiphers, c2 \in LiveCiphers :
        /\ ciphers[c1].cell # ciphers[c2].cell
        /\ ciphers[c1].kind = "MapleTable" /\ ciphers[c2].kind = "MapleTable"
        /\ ciphers[c1].from = 0 /\ ciphers[c2].from = 0
        /\ cells[ciphers[c1].cell].iv = cells[ciphers[c2].cell].iv
        /\ cells[ciphers[c1].cell].maxreq = BLOCK_SIZE + 1
        /\ cells[ciphers[c2].cell].maxreq = 2 * BLOCK_SIZE + MaxExtra
        /\ Len(TabOf(c1)) >= 3 * BLOCK_SIZE
        /\ Len(TabOf(c2)) >= 3 * BLOCK_SIZE

\* C2 as stated: a crypt call that follows buffers of total length n XORs
\* byte i of its buffer with keystream byte n + i.
C2_Advancing ==
    op.name = "crypt" =>
        LET cell == cells[ciphers[op.c].cell]
            n    == cell.total - Len(op.src)
        IN  \A i \in 1..Len(op.src) :
                op.dst[i] = Xor8(op.src[i], KeyByte(cell.iv, n + i - 1))

\* C2 amended: every crypt call XORs byte i of its buffer with keystream
\* byte i: each call starts at the first byte of the keystream, whatever
\* was transformed before.
C2_FromStart ==
    op.name = "crypt" =>
        /\ op.res = "ok"
        /\ Len(op.dst) = Len(op.src)
        /\ \A i \in 1..Len(op.src) :
               op.dst[i] = Xor8(op.src[i], KeyByte(cells[ciphers[op.c].cell].iv, i - 1))

\* A non-empty crypt call on a table that transformed bytes before.
C2_Witness ==
    /\ op.name = "crypt"
    /\ Len(op.src) > BLOCK_SIZE
    /\ cells[ciphers[op.c].cell].total > Len(op.src)

\* C3: a table is a non-empty whole number of blocks, block 0 the encrypted
\* repeated IV and block j the encryption of block j - 1, and it is at least
\* as long as the largest size requested.
C3_BlockChain ==
    \A k \in LiveCells :
        LET tab == cells[k].tab
        IN  /\ Len(tab) > 0
            /\ Len(tab) % BLOCK_SIZE = 0
            /\ Len(tab) >= cells[k].maxreq
            /\ Block(tab, 0) =
                 AesEncryptBlock(Tuple([i \in 1..BLOCK_SIZE |->
                                           cells[k].iv[((i - 1) % IV_SIZE) + 1]]))
            /\ \A j \in 1..((Len(tab) \div BLOCK_SIZE) - 1) :
                   Block(tab, j) = AesEncryptBlock(Block(tab, j - 1))

\* A table grown by several blocks for a request beyond two blocks.
C3_Witness ==
    \E k \in LiveCells :
        /\ cells[k].maxreq = 2 * BLOCK_SIZE + MaxExtra
        /\ Len(cells[k].tab) >= 3 * BLOCK_SIZE

\* d is the cipher c was cloned from, or a clone of c
CloneRelated(c, d) == ciphers[c].from = d \/ ciphers[d].from = c

EncThenDec ==
    /\ Len(strace) = 2
    /\ strace[1].res = "ok" /\ strace[2].res = "ok"
    /\ strace[1].is_enc /\ ~strace[2].is_enc
    /\ strace[1].algo # strace[2].algo
    /\ strace[1].at = 0 /\ strace[2].at = 0
    /\ strace[1].key = strace[2].key /\ strace[1].iv = strace[2].iv

\* C5: a buffer of a multiple of 4 bytes, encrypted by a fresh Snow2 and
\* then decrypted by another fresh Snow2 of the same key and IV, holds its
\* original bytes again.
C5_RoundTrip == EncThenDec => sdst.buf = sdst.orig

\* C5 witness: an 8-byte buffer went through the two calls, the encryption
\* changed it and the decryption restored it.
C5_Witness ==
    /\ EncThenDec
    /\ Len(sdst.orig) = 2 * U32_SIZE
    /\ strace[1].dst # sdst.orig
    /\ sdst.buf = sdst.orig

WholeWords(data) == SubSeq(data, 1, Len(data) - (Len(data) % 4))
DecryptedMemo ==
    { << key, data, Snow2Crypt(Snow2Fresh(key, ZeroIV), WholeWords(data), FALSE).dst >> :
        key \in SnowKeys, data \in ReaderData }
Decrypted(key, data) == (CHOOSE m \in DecryptedMemo : m[1] = key /\ m[2] = data)[3]

RECURSIVE SumSeq(_)
SumSeq(q) == IF q = << >> THEN 0 ELSE q[1] + SumSeq(Tail(q))

Prefix(q, n) == SubSeq(q, 1, n)

\* C7 (as claimed): every read returns exactly len(dst) bytes, and the
\* bytes returned so far are the prefix of the word-wise decryption of the
\* base, however the reads were cut.
C7_EveryReadReturnsAll ==
    (rd.live /\ rd.lens # << >>) =>
        /\ rd.res = "ok"
        /\ rd.ret = rd.lens[Len(rd.lens)]
        /\ rd.out = Prefix(Decrypted(rd.key, rd.data), SumSeq(rd.lens))

\* C7 (amended): while the base holds in full the 4-byte words that cover
\* the bytes asked for so far, every read returns exactly len(dst) bytes and
\* the bytes returned are the prefix of the word-wise decryption, however
\* the reads were cut; the read that asks beyond them fails with the
\* base's UnexpectedEof and returns nothing.
C7_ReadsWhileWordsLast ==
    (rd.live /\ rd.lens # << >>) =>
        LET asked == SumSeq(rd.lens)
            last  == rd.lens[Len(rd.lens)]
            words == ((asked + 3) \div 4) * 4
        IN  IF words <= Len(rd.data)
            THEN /\ rd.res = "ok"
                 /\ rd.ret = last
                 /\ rd.out = Prefix(Decrypted(rd.key, rd.data), asked)
            ELSE /\ rd.res = "UnexpectedEof"
                 /\ rd.out = Prefix(Decrypted(rd.key, rd.data), asked - last)

\* C7 witness: a first read left decrypted bytes in buf, and a second read
\* took them and pulled more words from the base for the rest.
C7_Witness ==
    /\ rd.live /\ rd.res = "ok"
    /\ Len(rd.lens) = 2
    /\ rd.lens[1] % 4 # 0
    /\ rd.lens[2] > 4 - (rd.lens[1] % 4)
    /\ Len(rd.out) = SumSeq(rd.lens)
    /\ rd.buf # << >>

(***************************************************************************)
(* C8: the offset obfuscator                                               *)
(***************************************************************************)
\* w rotated left by one bit, and by k bits
RotL1(w) == Pick({ << d[1] + (w[4] \div 128), d[2], d[3], d[4] >> : d \in { WAdd(w, w) } })

RECURSIVE RotL32(_, _)
RotL32(w, k) == IF k = 0 THEN w ELSE Pick({ RotL32(d, k - 1) : d \in { RotL1(w) } })

\* x = ((pos - parentOffset) XOR 0xFFFFFFFF) * versionHash - 0x581C3F6D
ObfX(pos, parentOffset, versionHash) ==
    WSub(WMulU16(WXor(ToWord(pos - parentOffset), << 255, 255, 255, 255 >>), versionHash),
         << 109, 63, 28, 88 >>)

\* rotl32(x, x AND 0x1F)
ObfMask(pos, parentOffset, versionHash) ==
    Pick({ RotL32(x, x[1] % 32) : x \in { ObfX(pos, parentOffset, versionHash) } })

\* the decoding as the formula gives it, and its inverse
ObfDecode(enc, pos, parentOffset, versionHash) ==
    WAdd(WXor(ObfMask(pos, parentOffset, versionHash), enc), ToWord(2 * parentOffset))

ObfEncode(offset, pos, parentOffset, versionHash) ==
    WXor(WSub(offset, ToWord(2 * parentOffset)), ObfMask(pos, parentOffset, versionHash))

RealOffsets == { << 64, 0, 0, 0 >>, << 0, 0, 0, 0 >>, << 15, 180, 240, 211 >>,
                 << 168, 33, 240, 120 >>, << 255, 255, 255, 255 >> }

\* compute_offset has run on a directory whose 4-byte field is all there
OffsetRead ==
    /\ ret.name = "compute_offset"
    /\ ret.from + 4 <= Len(acc.data)

\* C8: for every parentOffset, 16-bit versionHash and position pos taken
\* before the field is read, compute_offset returns (rotl32(x, x AND 0x1F)
\* XOR enc) + (parentOffset << 1) mod 2^32 and moves the cursor by 4;
\* encoding what it returned with the inverse gives the field back, and a
\* field that is the encoding of a real offset decodes to that offset
\* (0x40 with parentOffset 0x10, versionHash 0x1234, pos 0x30).
C8_RoundTrip ==
    OffsetRead =>
        /\ ret.res = "ok"
        /\ acc.pos = ret.from + 4
        /\ ret.enc = SubSeq(acc.data, ret.from + 1, ret.from + 4)
        /\ ret.val = ObfDecode(ret.enc, ret.from, opt.parent_offset, opt.ver_hash)
        /\ ObfEncode(ret.val, ret.from, opt.parent_offset, opt.ver_hash) = ret.enc
        /\ \A off \in RealOffsets :
             ret.enc = ObfEncode(off, ret.from, opt.parent_offset, opt.ver_hash)
                 => ret.val = off

\* C8 witness: the field encoding 0x40 under parentOffset 0x10, versionHash
\* 0x1234 at pos 0x30 has been decoded to 0x40.
C8_Witness ==
    /\ OffsetRead
    /\ opt.parent_offset = 16 /\ opt.ver_hash = 4660 /\ ret.from = 48
    /\ ret.enc = ObfEncode(<< 64, 0, 0, 0 >>, 48, 16, 4660)
    /\ ret.val = << 64, 0, 0, 0 >>

(***************************************************************************)
(* C9: the variable-length integer                                         *)
(***************************************************************************)
\* v as 4 little-endian bytes, two's complement
Le4(v) == << v % 256, (v \div 256) % 256, (v \div 65536) % 256, (v \div 16777216) % 256 >>

\* one byte holding v when v is in [-127, 127], otherwise the marker byte
\* -128 and v as 4 little-endian bytes
EncVarInt(v) == IF v >= -127 /\ v <= 127 THEN << v % 256 >> ELSE << 128 >> \o Le4(v)

VarIntValues ==
    (-127..127) \cup { -2147483647 - 1, -2147483647, -65536, -32769, -129, -128, 128, 255,
                       256, 32767, 65535, 16777216, 2147483647 }

\* data holds enc from position from on
HoldsAt(enc, data, from) ==
    /\ from + Len(enc) <= Len(data)
    /\ SubSeq(data, from + 1, from + Len(enc)) = enc

\* C9: when the bytes at the cursor are the encoding of an i32 v, then
\* get_var_i32_le returns v and leaves the cursor 1 byte further when v is in
\* [-127, 127] and 5 bytes further otherwise.
C9_VarIntRoundTrip ==
    ret.name = "get_var_i32_le" =>
        \A v \in VarIntValues :
            HoldsAt(EncVarInt(v), acc.data, ret.from) =>
                /\ ret.res = "ok"
                /\ ret.val = v
                /\ acc.pos = ret.from + (IF v >= -127 /\ v <= 127 THEN 1 ELSE 5)

\* C9 witness: a 5-byte encoding of a negative value (-129 or i32::MIN) has
\* been read back, the cursor 5 bytes further.
C9_Witness ==
    /\ ret.name = "get_var_i32_le"
    /\ \E v \in { -129, -2147483647 - 1 } :
         /\ HoldsAt(EncVarInt(v), acc.data, ret.from)
         /\ ret.val = v
         /\ acc.pos = ret.from + 5

(***************************************************************************)
(* C10: string decoding                                                    *)
(***************************************************************************)
\* The length prefix at position from: the byte as a signed n, or, after
\* the byte -128 or 127, the next 4 little-endian bytes as the magnitude;
\* hdr is the length of the prefix.  A magnitude of 2^16 or more is longer
\* than any data here and is given as 65536.
LengthPrefix(data, from) ==
    LET b == data[from + 1]
    IN  IF b = 128 \/ b = 127
        THEN [neg |-> b = 128, hdr |-> 5,
              n |-> IF data[from + 4] = 0 /\ data[from + 5] = 0
                    THEN data[from + 2] + 256 * data[from + 3] ELSE 65536]
        ELSE [neg |-> b > 128, hdr |-> 1, n |-> IF b > 128 THEN 256 - b ELSE b]

\* the bytes the prefix selects: |n| for a negative length, 2n for a positive
BodyLen(p) == IF p.neg THEN p.n ELSE 2 * p.n

\* the prefix and the bytes it selects are all in the data
StringPresent(data, from) ==
    /\ from + 1 <= Len(data)
    /\ data[from + 1] \in { 127, 128 } => from + 5 <= Len(data)
    /\ from + LengthPrefix(data, from).hdr + BodyLen(LengthPrefix(data, from)) <= Len(data)

StringBody(data, from) ==
    SubSeq(data, from + LengthPrefix(data, from).hdr + 1,
           from + LengthPrefix(data, from).hdr + BodyLen(LengthPrefix(data, from)))

\* byte i XOR (i + 0xAA) mod 256; 16-bit word i XOR (i + 0xAAAA) mod 65536
XorMask8(body) == Tuple([i \in 1..Len(body) |-> XorBits(body[i], (i - 1 + 170) % 256, 8)])
XorMask16(body) ==
    Tuple([i \in 1..(Len(body) \div 2) |->
        XorBits(body[2 * i - 1] + 256 * body[2 * i], (i - 1 + 43690) % 65536, 16)])
WordBytes(u) == Tuple([j \in 1..(2 * Len(u)) |->
                    IF j % 2 = 1 THEN u[(j + 1) \div 2] % 256 ELSE u[j \div 2] \div 256])

\* bytes read as Windows-1252
AsWindows1252(bytes) == Tuple([i \in 1..Len(bytes) |-> Windows1252Char(bytes[i])])

\* C10: a length prefix that reads as negative n selects |n| bytes, decoded
\* as Windows-1252 after XORing byte i with (i + 0xAA) mod 256 and applying
\* the cipher; a positive n selects 2n bytes, decoded as UTF-16LE after
\* XORing word i with (i + 0xAAAA) mod 65536 and applying the cipher (a
\* decode error is InvalidCharacter); a zero length gives the empty string.
\* The cursor ends after the selected bytes.  With the null cipher, 0xFF
\* 0x01 gives the one character U+00AB and the cursor 2 bytes further.
C10_StringDecoding ==
    (ret.name = "decrypt_string_slice" /\ StringPresent(acc.data, ret.from)) =>
        LET p    == LengthPrefix(acc.data, ret.from)
            body == StringBody(acc.data, ret.from)
            wide == DecodeUtf16(Units(AccCrypt(acc.cipher, WordBytes(XorMask16(body)))), 1)
        IN  /\ acc.pos = ret.from + p.hdr + BodyLen(p)
            /\ IF p.n = 0 THEN ret.res = "ok" /\ ret.val = << >>
               ELSE IF p.neg
                    THEN /\ ret.res = "ok"
                         /\ ret.val = AsWindows1252(AccCrypt(acc.cipher, XorMask8(body)))
               ELSE IF wide.err THEN ret.res = "InvalidCharacter"
               ELSE ret.res = "ok" /\ ret.val = wide.str
            /\ (acc.cipher = NoneCipher /\ ret.from = 0 /\ acc.data = << 255, 1 >>)
                   => ret.val = << 171 >> /\ acc.pos = 2

(***************************************************************************)
(* C11: back-reference strings                                             *)
(***************************************************************************)
IsUol == ret.name = "try_get_uol_string"
IsFlagged == ret.name \in { "try_get_uol_string", "try_get_image_string" }

\* the last call read a back-reference (flag 0x01 for try_get_uol_string,
\* 0x1B for try_get_image_string) whose offset field is all there, and the
\* sum with parentOffset did not stop on an overflow check
BackRefRead ==
    /\ IsFlagged
    /\ ret.flag = (IF IsUol THEN 1 ELSE 27)
    /\ ret.from + 5 <= Len(acc.data)
    /\ ~ret.ovf

\* the i32 after the flag plus parentOffset
BackRefPosition ==
    I32FromLe(SubSeq(acc.data, ret.from + 2, ret.from + 5)) + ret.parent

\* the cipher as it was when the accessor was built
FreshCipher(cipher) == IF cipher.kind = "MapleTable" THEN TableCipher(cipher.iv) ELSE cipher

\* the bytes stored from position t on, read through the inline form (flag
\* 0x00 / 0x73 before them) by an accessor that has decrypted nothing yet
InlineAt(t) ==
    IF IsUol
    THEN TryGetUolString(FreshCipher(acc.cipher),
                         << 0 >> \o SubSeq(acc.data, t + 1, Len(acc.data)), 0, ret.parent, TRUE)
    ELSE TryGetImageString(FreshCipher(acc.cipher),
                           << 115 >> \o SubSeq(acc.data, t + 1, Len(acc.data)), 0, ret.parent,
                           TRUE)

\* C11: a string read through the back-reference form (flag 0x01 or 0x1B,
\* then an i32 relative offset added to parentOffset) comes out as the same
\* stored bytes read through the inline form at the target position do: the
\* same string, or a failure where the inline read fails, for either cipher
\* and whatever was decrypted on the accessor before.
C11_BackRefSameAsInline ==
    (BackRefRead /\ BackRefPosition >= 0 /\ BackRefPosition <= Len(acc.data)) =>
        /\ ret.res = InlineAt(BackRefPosition).res
        /\ ret.val = InlineAt(BackRefPosition).str

\* C11 witness: after two earlier reads that made a MapleTable cipher extend
\* its table, a back-reference to the 20-byte string returned its 20
\* characters.
C11_Witness ==
    /\ BackRefRead
    /\ ret.k = 3 /\ ret.res = "ok" /\ Len(ret.val) = 20
    /\ acc.cipher.kind = "MapleTable" /\ Len(acc.cipher.tab) > BLOCK_SIZE
    /\ ret.parent = 0 /\ BackRefPosition = 1

(***************************************************************************)
(* C20: the image dispatcher                                               *)
(***************************************************************************)
\* the classification by tag: Property -> Property(Encoded), Canvas ->
\* Canvas, Canvas#Video -> Video, Shape2D#Convex2D -> Convex2D,
\* Shape2D#Vector2D -> Vector2D, UOL -> UOL, Sound_DX8 -> Sound, RawData ->
\* RawData
TagTable ==
    { << << 80, 114, 111, 112, 101, 114, 116, 121 >>, "Property(Encode)" >>,
      << << 67, 97, 110, 118, 97, 115 >>, "Image(Canvas)" >>,
      << << 67, 97, 110, 118, 97, 115, 35, 86, 105, 100, 101, 111 >>, "Image(Video)" >>,
      << << 83, 104, 97, 112, 101, 50, 68, 35, 67, 111, 110, 118, 101, 120, 50, 68 >>,
         "Image(Convex2D)" >>,
      << << 83, 104, 97, 112, 101, 50, 68, 35, 86, 101, 99, 116, 111, 114, 50, 68 >>,
         "Image(Vector2D)" >>,
      << << 85, 79, 76 >>, "Image(UOL)" >>,
      << << 83, 111, 117, 110, 100, 95, 68, 88, 56 >>, "Image(Sound)" >>,
      << << 82, 97, 119, 68, 97, 116, 97 >>, "Image(RawData)" >> }

\* the tag of the node the last call was on, read as try_get_image_string
\* reads it by a fresh accessor
NodeTag ==
    TryGetImageString(FreshCipher(acc.cipher), acc.data, ret.from, ret.parent, FALSE)

\* the leading flag, where there is one
NodeFlag == acc.data[ret.from + 1]

\* C20: a node whose tag is read (flag 0x73 or 0x1B) is classified by the
\* tag as the table says, and any other tag string is UnexpectedData; for
\* any other leading flag, 0x23 followed by the 8 bytes "Property" gives
\* Property(PlainText), 0x01 gives Image(Script) with the offset on the flag
\* byte, and every other case fails with UnexpectedData.
C20_Dispatch ==
    (ret.name = "Image::try_from_accessor" /\ ret.from < Len(acc.data)) =>
        IF NodeFlag \in { 115, 27 }
        THEN NodeTag.res = "ok" =>
                 IF \E row \in TagTable : row[1] = NodeTag.str
                 THEN /\ ret.res = "ok"
                      /\ << NodeTag.str, ret.kind >> \in TagTable
                 ELSE ret.res = "UnexpectedData"
        ELSE IF /\ NodeFlag = 35
                /\ ret.from + 9 <= Len(acc.data)
                /\ SubSeq(acc.data, ret.from + 2, ret.from + 9)
                       = << 80, 114, 111, 112, 101, 114, 116, 121 >>
             THEN ret.res = "ok" /\ ret.kind = "Property(Plain)"
        ELSE IF NodeFlag = 1
             THEN ret.res = "ok" /\ ret.kind = "Image(Script)" /\ ret.offset = ret.from
        ELSE ret.res = "UnexpectedData"

\* ---- C12 ----

IsDirectory == ret.name = "Directory::try_from_accessor"

\* the bytes a var-int takes from position q on: 5 after the marker -128
VarIntLen(data, q) == IF data[q + 1] = 128 THEN 5 ELSE 1

\* where the name part of the record at p ends: the kind byte and the 4-byte
\* name offset of a UOL record, or the kind byte and the name stored inline
NameEnd(data, p) ==
    IF data[p + 1] = UOL THEN p + 5
    ELSE p + 1 + LengthPrefix(data, p + 1).hdr + BodyLen(LengthPrefix(data, p + 1))

\* where the record at p ends: after the name part, the two var-ints (size
\* and checksum) and the 4-byte obfuscated offset field
RecordEnd(data, p) ==
    LET a == NameEnd(data, p)
        b == a + VarIntLen(data, a)
    IN  b + VarIntLen(data, b) + 4

\* the entry returned is an image whose tag is stored as a back-reference
TagBackReferenced ==
    /\ IsDirectory /\ ret.res = "ok" /\ ret.some
    /\ ret.dir.kind # "Folder"
    /\ acc.data[WordNat(ret.dir.parent_offset) + 1] = 27

\* C12: seek_back leaves the cursor where it was before the call, also when
\* calls are nested: after a directory record that is not Unknown has been
\* read (its name looked up at the UOL target, its image opened at the data
\* offset, the image's tag looked up through a back-reference) without a
\* panic, the cursor is right after the record's 4-byte offset field; and
\* the position taken right after a back-referenced tag read, which the
\* entry keeps as its offset, is 5 bytes past the tag's flag byte.
C12_SeekBackRestores ==
    /\ (IsDirectory /\ ret.res # "panic" /\ acc.data[ret.from + 1] # UNKNOWN)
           => acc.pos = RecordEnd(acc.data, ret.from)
    /\ TagBackReferenced
           => WordNat(ret.dir.offset) = WordNat(ret.dir.parent_offset) + 5

\* C12 witness: a UOL record was read whose image tag is a back-reference
\* (a seek_back for the name, then one for the image with one for the tag
\* inside it), and the cursor is right after the record's offset field.
C12_Witness ==
    /\ TagBackReferenced
    /\ acc.data[ret.from + 1] = UOL
    /\ acc.pos = RecordEnd(acc.data, ret.from)

\* ---- C13 ----

IsWizetNew == ret.name = "WizetFile::new"

\* the header fields of a file that has all 16 bytes of them; the sizes as
\* numbers, 65536 standing for every size from 2^16 on
FileSignature == SubSeq(acc.data, 1, 4)
FileDataSize ==
    IF \A i \in 7..12 : acc.data[i] = 0 THEN acc.data[5] + 256 * acc.data[6] ELSE 65536
FileHeaderSize ==
    IF acc.data[15] = 0 /\ acc.data[16] = 0 THEN acc.data[13] + 256 * acc.data[14] ELSE 65536

\* the header is well formed: the signature, fileLen - dataSize = headerSize,
\* and an ASCII copyright with its trailing byte before headerSize
HeaderWellFormed ==
    /\ Len(acc.data) >= 16
    /\ FileSignature = << 80, 75, 71, 49 >>
    /\ FileDataSize <= Len(acc.data)
    /\ Len(acc.data) - FileDataSize = FileHeaderSize
    /\ FileHeaderSize >= 17
    /\ \A i \in 17..(FileHeaderSize - 1) : acc.data[i] < 128

\* the u16 stored at headerSize, when its two bytes are in the file
VersionFieldStored == FileHeaderSize + 2 <= Len(acc.data)
VersionField == acc.data[FileHeaderSize + 1] + 256 * acc.data[FileHeaderSize + 2]

C14_BrokenFile ==
    (/\ IsWizetNew
     /\ Len(acc.data) >= 16
     /\ \/ FileSignature # << 80, 75, 71, 49 >>
        \/ FileDataSize > Len(acc.data)
        \/ Len(acc.data) - FileDataSize # FileHeaderSize)
        => ret.res = "BrokenFile"

\* ---- C15 ----

IsPackNew == ret.name = "PackFile::new"

\* 32-bit wrapping addition, byte by byte with the carry
Add32(a, b) ==
    LET s1 == a[1] + b[1]
        s2 == a[2] + b[2] + (s1 \div 256)
        s3 == a[3] + b[3] + (s2 \div 256)
        s4 == a[4] + b[4] + (s3 \div 256)
    IN  << s1 % 256, s2 % 256, s3 % 256, s4 % 256 >>

\* the file's hashSaltLen (behind the 30 rand bytes of these names) and
\* its salt: as many byte pairs as the low byte of hashSaltLen XOR the
\* first rand byte
FileHashSaltLen == SubSeq(acc.data, 31, 34)
FileSaltPairs == XorBits(acc.data[31], acc.data[1], 8)
FileSalt == SubSeq(acc.data, 35, 34 + 2 * FileSaltPairs)

\* the file holds the salt and the 12 encrypted header bytes
PackHeaderPresent ==
    /\ Len(acc.data) >= 34
    /\ Len(acc.data) >= 34 + 2 * FileSaltPairs + 12

\* the sum of the salt's u16 little-endian pairs from the i-th byte on
RECURSIVE PairSum(_, _)
PairSum(salt, i) ==
    IF i > Len(salt) THEN << 0, 0, 0, 0 >>
    ELSE Add32(<< salt[i], salt[i + 1], 0, 0 >>, PairSum(salt, i + 2))

\* hashSaltLen + version + entryCount + the salt pairs, 32-bit wrapping
ExpectedHash ==
    Add32(Add32(Add32(FileHashSaltLen, << ret.version, 0, 0, 0 >>), ret.entry_count),
          PairSum(FileSalt, 1))

\* C15: PackFile::new returns InvalidVersion when the decrypted version byte
\* is not 2; otherwise BrokenFile exactly when hashSaltLen + version +
\* entryCount + the salt's u16 pairs (32-bit wrapping) is not the decrypted
\* hash; and it accepts the header exactly when both checks pass.
C15_HeaderChecks ==
    (IsPackNew /\ PackHeaderPresent) =>
        ret.res = (IF ret.version # 2 THEN "InvalidVersion"
                   ELSE IF ExpectedHash # ret.hash THEN "BrokenFile"
                   ELSE "ok")

\* C15 witness: a header was accepted whose sum wraps past 2^31 (a
\* hashSaltLen of 0x7FFFFF02 and the salt pairs 0xFFFF and 0x8001).
C15_Witness ==
    /\ IsPackNew /\ PackHeaderPresent
    /\ FileHashSaltLen = << 2, 255, 255, 127 >>
    /\ ret.version = 2 /\ ExpectedHash = ret.hash /\ ExpectedHash[4] >= 128
    /\ ret.res = "ok"

\* ---- C16 ----

IsPackEntries == ret.name = "PackEntries::try_from"

\* the entry table as stored, decrypted with the entry key
TablePlain ==
    LET from == ret.pack.entry_pos
        n    == (Len(acc.data) - from) - ((Len(acc.data) - from) % 4)
    IN  Snow2Crypt(PackSnow(ret.pack.entry_key), SubSeq(acc.data, from + 1, from + n),
                   FALSE).dst

\* the bytes of the stored entry that starts at byte p of the table: 4 +
\* 2 * nameLen + 44
StoredSize(plain, p) == 4 + 2 * plain[p + 1] + 44

\* where the i-th stored entry starts in the table
RECURSIVE StoredStart(_, _)
StoredStart(plain, i) ==
    IF i = 1 THEN 0
    ELSE StoredStart(plain, i - 1) + StoredSize(plain, StoredStart(plain, i - 1))

\* the raw offset of the i-th stored entry, an i32: behind the name, the
\* checksum and the flags
RawOffset(plain, i) ==
    LET p == StoredStart(plain, i) + 4 + 2 * plain[StoredStart(plain, i) + 1] + 8
    IN  I32FromLe(SubSeq(plain, p + 1, p + 4))

\* entryPos + the sum of the entries' sizes, and A
EntryRegionEnd(plain, count) == ret.pack.entry_pos + StoredStart(plain, count + 1)
DataStart(plain, count) == ((EntryRegionEnd(plain, count) + 1023) \div 1024) * 1024

\* raw * 0x400 + A, when it is an i32
ExactOffset(raw, A) ==
    IF raw >= -2097152 /\ raw <= 2097151
    THEN IF raw * 1024 <= 2147483647 - A THEN [fits |-> TRUE, val |-> raw * 1024 + A]
         ELSE [fits |-> FALSE, val |-> 0]
    ELSE [fits |-> FALSE, val |-> 0]

\* C16: after the entry table is parsed, every entry's offset is rawOffset
\* * 0x400 + A, A the end of the entry table rounded up to 0x400; so for a
\* raw offset that is not negative the entry's offset is a multiple of
\* 0x400 and not below the end of the entry table.
C16_EntryOffsets ==
    (IsPackEntries /\ ret.res = "ok") =>
        \A i \in 1..Len(ret.entries) :
            LET plain == TablePlain
                raw   == RawOffset(plain, i)
                A     == DataStart(plain, Len(ret.entries))
                off   == I32FromLe(ret.entries[i].offset)
            IN  /\ ExactOffset(raw, A).fits /\ off = ExactOffset(raw, A).val
                /\ raw >= 0 => off % 1024 = 0 /\ off >= EntryRegionEnd(plain, Len(ret.entries))

\* ---- C17 ----

IsDirectories == ret.name = "Directories::try_from_accessor"

\* the entryCount stored at position p: a var-int
CountAt(data, p) ==
    IF data[p + 1] = 128 THEN I32FromLe(SubSeq(data, p + 2, p + 5))
    ELSE IF data[p + 1] > 127 THEN data[p + 1] - 256 ELSE data[p + 1]

\* the start positions, in on-disk order, of those of the left records from
\* p on whose kind byte is not 1; a record of kind 1 takes 11 bytes
RECURSIVE Records(_, _, _)
Records(data, p, left) ==
    IF left = 0 THEN << >>
    ELSE IF data[p + 1] = UNKNOWN THEN Records(data, p + 11, left - 1)
    ELSE << p >> \o Records(data, RecordEnd(data, p), left - 1)

\* where the left records from p on end
RECURSIVE FolderEnd(_, _, _)
FolderEnd(data, p, left) ==
    IF left = 0 THEN p
    ELSE IF data[p + 1] = UNKNOWN THEN FolderEnd(data, p + 11, left - 1)
    ELSE FolderEnd(data, RecordEnd(data, p), left - 1)

\* the entry that the record at p gives when read on its own
EntryAt(p) == DirectoryFromAccessor(acc.cipher, opt, acc.data, p, TRUE).dir

\* the folder listed starts right after its count
FirstRecord == ret.from + VarIntLen(acc.data, ret.from)

\* C17: a listing that is returned has, in on-disk order, exactly one entry
\* for each of the entryCount records whose kind byte is not 1, and the
\* cursor is left after the last record, an Unknown record counted as 11
\* bytes; an Unknown record read on its own takes 11 bytes and gives no
\* entry; a folder whose entryCount is 0 gives an empty listing, without
\* error.
C17_Listing ==
    /\ (IsDirectories /\ ret.res = "ok") =>
           LET n  == CountAt(acc.data, ret.from)
               rs == Records(acc.data, FirstRecord, n)
           IN  /\ Len(ret.directories) = Len(rs)
               /\ \A i \in 1..Len(rs) : ret.directories[i] = EntryAt(rs[i])
               /\ acc.pos = FolderEnd(acc.data, FirstRecord, n)
    /\ (IsDirectory /\ ret.from < Len(acc.data) /\ acc.data[ret.from + 1] = UNKNOWN) =>
           ret.res = "ok" /\ ~ret.some /\ acc.pos = ret.from + 11
    /\ (IsDirectories /\ ret.from < Len(acc.data) /\ acc.data[ret.from + 1] = 0) =>
           ret.res = "ok" /\ ret.directories = << >> /\ acc.pos = ret.from + 1

\* C17 witness: a folder of 5 records, the second of them Unknown, has been
\* listed: 4 entries, the first a folder and the others images.
C17_Witness ==
    /\ IsDirectories /\ ret.res = "ok"
    /\ CountAt(acc.data, ret.from) = 5
    /\ acc.data[RecordEnd(acc.data, FirstRecord) + 1] = UNKNOWN
    /\ Len(ret.directories) = 4
    /\ ret.directories[1].kind = "Folder"
    /\ ret.directories[2].kind # "Folder"

\* C17 witness of the empty folder: entryCount 0 has been listed.
C17_Empty ==
    /\ IsDirectories /\ ret.res = "ok"
    /\ acc.data[ret.from + 1] = 0 /\ ret.directories = << >>

\* ---- C18 ----

IsProperty == ret.name = "Property::try_from_accessor"

\* the kind bytes of an encoded property
PropKinds == { 0, 2, 11, 3, 19, 20, 4, 5, 8, 9 }

\* the property read starts on a byte of the data: the flag of its name
NameFlagStored == ret.from < Len(acc.data)
NameFlag == acc.data[ret.from + 1]

\* where the kind byte of the property read is, its name being stored whole:
\* after the 4-byte offset of a back-referenced name, or after an inline one
KindPos ==
    IF NameFlag = 1 THEN ret.from + 5
    ELSE ret.from + 1 + LengthPrefix(acc.data, ret.from + 1).hdr
             + BodyLen(LengthPrefix(acc.data, ret.from + 1))
KindStored ==
    /\ NameFlagStored /\ NameFlag \in { 0, 1 }
    /\ NameFlag = 0 => StringPresent(acc.data, ret.from + 1)
    /\ KindPos < Len(acc.data)

\* C18: no parse of a directory record or of an encoded property ends in a
\* panic; a directory record whose kind byte is not 1, 2, 3 or 4 fails with
\* UnexpectedData, and so does an encoded property whose name starts with a
\* flag other than 0x00 and 0x01, or whose kind byte is none of the ten.
C18_ErrorsReturned ==
    /\ (IsDirectory \/ IsProperty) => ret.res # "panic"
    /\ (IsDirectory /\ ret.from < Len(acc.data)
            /\ acc.data[ret.from + 1] \notin { UNKNOWN, UOL, FOLDER, IMAGE })
           => ret.res = "UnexpectedData"
    /\ (IsProperty /\ NameFlagStored /\ NameFlag \notin { 0, 1 })
           => ret.res = "UnexpectedData"
    /\ (IsProperty /\ KindStored /\ acc.data[KindPos + 1] \notin PropKinds)
           => ret.res = "UnexpectedData"

\* ---- C19 ----

\* the bytes of the data after the kind byte of the property read
ValueLeft == Len(acc.data) - (KindPos + 1)

\* the value of the property read is a fixed-width primitive (an i16, an f64,
\* or the i32, f32 or i64 that follows the marker -128 of a var-int) and
\* fewer bytes are left for it than its width
ShortValue ==
    LET k      == acc.data[KindPos + 1]
        marked == ValueLeft >= 1 /\ acc.data[KindPos + 2] = 128
    IN  \/ k \in { I16_1, I16_2 } /\ ValueLeft < 2
        \/ k = F64 /\ ValueLeft < 8
        \/ k \in { I32_1, I32_2, F32 } /\ marked /\ ValueLeft - 1 < 4
        \/ k = I64 /\ marked /\ ValueLeft - 1 < 8

\* C19: a fixed-width primitive read issued when fewer bytes remain than its
\* width fails: a property whose i16, i32, f32, i64 or f64 value is cut
\* short by the end of the data is not returned.
C19_NoShortReads ==
    (IsProperty /\ KindStored /\ ShortValue) => ret.res # "ok"

\* ---- C21 ----

IsCacheGet == nav.open /\ nav.last.name = "EntryCache::try_get_by_path"

\* what Entry::try_get_by_path gives for the path of the last get, on the
\* entry of the node the get was made on
LazyGet == EntryTryGetByPath(nav.last.self, nav.last.path)

\* C21: EntryCache::try_get_by_path (and try_get, the path of one name)
\* resolves to the same child, with the same name, value and offset, as
\* Entry::try_get_by_path on the same entry, for every listing, also one in
\* which two children carry the same name.
C21_SameChild ==
    IsCacheGet =>
        /\ nav.last.res = LazyGet.res
        /\ nav.last.some = LazyGet.some
        /\ nav.last.some =>
               /\ nav.last.entry.name = LazyGet.entry.name
               /\ nav.last.entry.value = LazyGet.entry.value
               /\ nav.last.entry.offset = LazyGet.entry.offset

\* ---- C22 ----

\* the nodes a call may decode: the node an iteration is made on; for a get
\* the node it is made on and the children it passes through, but not the
\* child it returns
MayDecode(last) ==
    IF last.name = "EntryCache::try_iter" THEN { last.at }
    ELSE IF last.name = "EntryCache::try_get_by_path"
         THEN { last.at \o SubSeq(Components(last.path), 1, i) :
                i \in 0..(Len(Components(last.path)) - 1) }
    ELSE { << >> }

\* a node whose map is stored was decoded once
DecodedOnce == nav.open => \A p \in DOMAIN nav.cache : nav.reads[p] = 1

\* a call leaves the stored maps as they are, decodes no node whose map is
\* stored, and decodes only nodes it is made on or passes through
StoredMapsKept ==
    (nav.open /\ nav'.open) =>
        /\ \A p \in DOMAIN nav.cache :
               /\ p \in DOMAIN nav'.cache /\ nav'.cache[p] = nav.cache[p]
               /\ nav'.reads[p] = nav.reads[p]
        /\ \A p \in NavNodes : nav'.reads[p] # nav.reads[p] => p \in MayDecode(nav'.last)

\* C22: EntryCache decodes the child list of a node at most once over any
\* sequence of gets and iterations: once a node's map is stored, every
\* later access is served from it, unchanged, with no further decode; and
\* the children of a child are decoded only by a call made on that child or
\* passing through it, not by the call that returns it.
C22_DecodedOnce == []DecodedOnce /\ [][StoredMapsKept]_vars

\* C22 witness: a folder b reached through the root has its map stored, and
\* the last call, a get made on the root after that, found its child served
\* from the root's map.
C22_Witness ==
    /\ IsCacheGet /\ nav.k = 3
    /\ nav.last.at = << >> /\ nav.last.some
    /\ << "b" >> \in DOMAIN nav.cache
    /\ nav.reads[<< >>] = 1 /\ nav.reads[<< "b" >>] = 1

\* ---- C23 ----

\* the property read is a nested image, returned
IsImageProperty ==
    /\ IsProperty /\ ret.res = "ok" /\ KindStored
    /\ acc.data[KindPos + 1] = PROP_IMAGE

\* the position immediately after the i32 imageSize field
ImageStart == KindPos + 1 + U32_SIZE

\* C23: after a nested image (kind 0x09) is decoded successfully the cursor
\* is at imageStart + imageSize, imageStart being the position after the
\* i32 imageSize field, however many bytes the image dispatcher read.
C23_CursorAfterImage ==
    IsImageProperty => acc.pos = ImageStart + ret.value.val.size

\* ---- C24 ----

IsPlain == ret.name = "PlainProperties::try_from_accessor"

\* the text parsed: the data from the position of the call on
PlainText == SubSeq(acc.data, ret.from + 1, Len(acc.data))

\* where c is first in s from the i-th char on, 0 when it is nowhere
RECURSIVE FirstOf(_, _, _)
FirstOf(s, c, i) ==
    IF i > Len(s) THEN 0 ELSE IF s[i] = c THEN i ELSE FirstOf(s, c, i + 1)

\* s without the whitespace at its ends
RECURSIVE TrimStart(_)
TrimStart(s) ==
    IF s # << >> /\ IsWhitespace(s[1]) THEN TrimStart(Tail(s)) ELSE s
RECURSIVE TrimEnd(_)
TrimEnd(s) ==
    IF s # << >> /\ IsWhitespace(s[Len(s)]) THEN TrimEnd(SubSeq(s, 1, Len(s) - 1)) ELSE s
Trim(s) == TrimEnd(TrimStart(s))

\* an identifier: chars that are neither whitespace nor delimiters
IsIdentifier(s) ==
    /\ s # << >>
    /\ \A i \in 1..Len(s) : ~IsWhitespace(s[i]) /\ TokenKindOf(s[i]) = "none"

\* the text starts with an identifier and '='
EqualAt == FirstOf(PlainText, EQUAL_SIGN, 1)
StartsProperty ==
    /\ EqualAt > 0
    /\ FirstOf(SubSeq(PlainText, 1, EqualAt - 1), NEW_LINE, 1) = 0
    /\ IsIdentifier(Trim(SubSeq(PlainText, 1, EqualAt - 1)))
FirstName == Trim(SubSeq(PlainText, 1, EqualAt - 1))

\* the text starts with a line `name = value`: the rest of the line after
\* '=' holds no delimiter
LineEnd == FirstOf(PlainText, NEW_LINE, EqualAt + 1)
RestOfLine == SubSeq(PlainText, EqualAt + 1, LineEnd - 1)
StartsLine ==
    /\ StartsProperty /\ LineEnd > 0
    /\ \A i \in 1..Len(RestOfLine) : TokenKindOf(RestOfLine[i]) = "none"

\* the text starts with `name = {`, and a '}' follows with no '{' between
BraceAt == FirstOf(PlainText, LEFT_BRACE, EqualAt + 1)
CloseAt == FirstOf(PlainText, RIGHT_BRACE, BraceAt + 1)
Between == SubSeq(PlainText, BraceAt + 1, CloseAt - 1)
StartsNest ==
    /\ StartsProperty /\ BraceAt > 0 /\ CloseAt > 0
    /\ \A i \in (EqualAt + 1)..(BraceAt - 1) :
           IsWhitespace(PlainText[i]) /\ PlainText[i] # NEW_LINE
    /\ FirstOf(Between, LEFT_BRACE, 1) = 0

\* C24: plain-text parsing follows property := identifier '=' ( '{'
\* property* '}' | rest-of-line ): the value of a line `name = value` is the
\* rest of the line without the whitespace around it, interior whitespace
\* kept; `name = {` ... `}` gives a nested list of the properties between
\* the braces; and the parse returns Ok whatever the text.
C24_Grammar ==
    IsPlain =>
        /\ ret.res = "ok"
        /\ StartsLine =>
              /\ Len(ret.properties) >= 1
              /\ ret.properties[1] = [name |-> FirstName, value |-> PlainValue(Trim(RestOfLine))]
        /\ StartsNest =>
              /\ Len(ret.properties) >= 1
              /\ ret.properties[1]
                     = [name |-> FirstName,
                        value |-> PlainNested(ParseList(Between, << >>).properties)]

\* ---- C25 ----

\* a canvas attribute was decoded and returned
IsCanvasAttr ==
    ret.name = "CanvasAttribute::try_from_accessor" /\ ret.res = "ok"

\* where the compressedSize field of the attribute read starts, and the
\* bytes of the data from there
SizeField == ret.attr.field
SizeBytesLeft == Max(0, Len(acc.data) - SizeField)

\* the first four bytes of the data from the field on, zeros for those
\* the data does not have
FieldWord ==
    Tuple([i \in 1..4 |-> IF SizeField + i <= Len(acc.data) THEN acc.data[SizeField + i]
                          ELSE 0])

\* C25 as stated: compressedSize is read with the variable-length i32 codec
\* and 1 is subtracted, then 1 byte is skipped; a field encoded in a single
\* byte advances the cursor by 1 + 1 bytes.
C25_VarSize ==
    (IsCanvasAttr /\ SizeBytesLeft >= 1) =>
        /\ ret.attr.data_size
               = SubOneI32(IF FieldWord[1] = 128
                           THEN I32FromLe(Tuple([i \in 1..4 |->
                                    IF SizeField + 1 + i <= Len(acc.data)
                                    THEN acc.data[SizeField + 1 + i] ELSE 0]))
                           ELSE AsI8(FieldWord[1]), FALSE).val
        /\ FieldWord[1] # 128 => acc.pos = SizeField + 1 + 1

\* C25, amended: compressedSize is read as a fixed-width little-endian i32
\* of 4 bytes (the bytes the data does not have read as zeros) and 1 is
\* subtracted, then 1 byte is skipped; the cursor advances by 4 + 1 bytes
\* whatever the first byte of the field, and by the bytes present and 1
\* when fewer than 4 are left.
C25_FixedSize ==
    IsCanvasAttr =>
        /\ ret.attr.data_size = SubOneI32(I32FromLe(FieldWord), FALSE).val
        /\ acc.pos = SizeField + Min(4, SizeBytesLeft) + 1
        /\ SizeBytesLeft >= 4 => acc.pos = SizeField + 4 + 1

\* a field whose first byte is a size of 7, read after a property list
C25_Witness ==
    /\ IsCanvasAttr /\ ret.attr.property.some /\ SizeBytesLeft >= 4
    /\ FieldWord = << 7, 0, 0, 0 >>
    /\ ret.attr.data_size = 6 /\ acc.pos = SizeField + 5

\* ---- C26 ----

\* the record read is of kind 2 (Alias), and an entry was returned for it
IsAlias ==
    /\ IsDirectory /\ ret.res = "ok" /\ ret.some
    /\ acc.data[ret.from + 1] = UOL

\* the 32-bit offset field of the record read, which follows its kind byte
AliasOffset == WordNat(SubSeq(acc.data, ret.from + 2, ret.from + 5))

\* the entry is the one the (realKind, name) pair stored at position p
\* gives: the name that follows the kind byte at p, a folder for a kind of
\* 3 and a node of an image file otherwise
NamedAsAt(p) ==
    /\ p < Len(acc.data)
    /\ GetDecryptString(acc.cipher, acc.data, p + 1, TRUE).res = "ok"
    /\ ret.dir.name = GetDecryptString(acc.cipher, acc.data, p + 1, TRUE).str
    /\ (ret.dir.kind = "Folder") <=> (acc.data[p + 1] = FOLDER)

\* the cursor is after the size, the checksum and the offset that follow
\* the 4-byte field of the alias
AfterAliasTail ==
    LET q == ret.from + 1 + U32_SIZE
        c == q + VarIntLen(acc.data, q)
    IN  acc.pos = c + VarIntLen(acc.data, c) + U32_SIZE

\* C26 as stated: the offset field of an Alias record is an absolute byte
\* position: the (realKind, name) pair is read at exactly that position of
\* the file, whatever the folder's parentOffset, and the cursor resumes
\* right after the 4-byte field.
C26_AbsoluteAlias == IsAlias => (NamedAsAt(AliasOffset) /\ AfterAliasTail)

\* C26, amended: the offset field of an Alias record is relative to the
\* folder's parentOffset: the (realKind, name) pair is read at position
\* parentOffset + offset, and the cursor resumes right after the 4-byte
\* field.
C26_RelativeAlias ==
    IsAlias => (NamedAsAt(opt.parent_offset + AliasOffset) /\ AfterAliasTail)

\* an alias read under a parentOffset that is not 0
C26_Witness == IsAlias /\ opt.parent_offset > 0 /\ ret.dir.name # << >>

\* ---- C27 ----

\* a canvas was decoded past its attribute and the call returned
IsCanvas ==
    /\ ret.name = "Canvas::try_from_accessor" /\ ret.res # "panic"
    /\ ret.attr.format # "Unknown"

\* the payload does not start with the zlib header 0x78 0x9C: the chunked
\* branch was taken
PayloadByte(i) ==
    IF ret.payload + i <= Len(acc.data) THEN acc.data[ret.payload + i] ELSE 0
IsChunked == IsCanvas /\ PayloadByte(1) + 256 * PayloadByte(2) # ZLIB_HEADER_BYTE

\* the bytes of the source from the start of the payload to the cursor
PayloadRead == acc.pos - ret.payload

\* C27: in the chunked branch the (i32 chunkLen, chunk bytes) records are
\* read only inside the canvas payload: no source byte at or beyond
\* payloadStart + compressedSize is consumed, even when further bytes
\* follow in the source.
C27_ChunksInsidePayload ==
    (IsChunked /\ ret.attr.data_size >= 0) => PayloadRead <= ret.attr.data_size

\* ---- C28 ----

\* a video was decoded and returned
IsVideo == ret.name = "Video::try_from_accessor" /\ ret.res = "ok"

\* the n bytes of the source from the absolute position p on
SourceAt(p, n) == SubSeq(acc.data, p + 1, p + n)

\* C28: each frame i of a video holds exactly metadata[i].data_size bytes
\* read from the absolute position metadata[i].data_offset and, under the
\* alpha-map flag, exactly metadata[i].alpha_data_size bytes read from
\* metadata[i].alpha_data_offset.
C28_FrameBytes ==
    IsVideo =>
        /\ Len(ret.frames) = Len(ret.attr.metadata)
        /\ \A i \in 1..Len(ret.frames) :
             LET m == ret.attr.metadata[i]
             IN  /\ Len(ret.frames[i].data) = m.data_size
                 /\ ret.frames[i].data = SourceAt(m.data_offset, m.data_size)
                 /\ HasFlag(ret.attr.mcv_flag, ALPHA_MAP) =>
                        /\ Len(ret.frames[i].alpha_data) = m.alpha_data_size
                        /\ ret.frames[i].alpha_data
                               = SourceAt(m.alpha_data_offset, m.alpha_data_size)

\* ---- C29 ----

\* C29: wherever seeks and reads have left the cursor, past the end of the
\* data included, remaining() is max(len - pos, 0), the subtraction never
\* going below zero, and has_remaining() is false whenever pos >= len.
C29_Remaining ==
    /\ ret.name = "remaining" =>
           /\ ret.res = "ok" /\ ~ret.wrapped
           /\ ret.val = Max(Len(acc.data) - ret.from, 0)
    /\ (ret.name = "has_remaining" /\ ret.from >= Len(acc.data)) =>
           ret.res = "ok" /\ ~ret.val

\* ---- C30 ----
\* the decimal digits of v as a number again
RECURSIVE DigitsValue(_, _)
DigitsValue(bytes, n) ==
    IF n = 0 THEN 0 ELSE 10 * DigitsValue(bytes, n - 1) + (bytes[n] - 48)

\* C30: for every version of the u16 range, no addition of the fold of hash
\* reaches 2^16: hash returns, without a panic and without a wrapped sum, the
\* fold h := (h << 5) + (b + 1) over the ASCII digits of v, and hash_enc
\* returns a byte.
C30_HashTotal ==
    ret.name \in { "MapleVersion::hash", "MapleVersion::hash_enc" } =>
        /\ ret.res = "ok" /\ ~ret.wrapped
        /\ DigitsValue(DecimalBytes(ret.ver), Len(DecimalBytes(ret.ver))) = ret.ver
        /\ ret.name = "MapleVersion::hash" => ret.val = hash(ret.ver)
        /\ ret.name = "MapleVersion::hash_enc" =>
               ret.val = hash_enc(ret.ver) /\ ret.val \in 0..255

\* C30: hash has returned for the largest version, five digits whose fold
\* loses bits to the shift
C30_Witness ==
    /\ ret.name = "MapleVersion::hash" /\ ret.ver = 2 ^ 16 - 1 /\ ret.res = "ok"
    /\ ret.val # 54 * 32 ^ 4 + 54 * 32 ^ 3 + 54 * 32 ^ 2 + 52 * 32 + 54

====
